---- MODULE Spec2Model ----
(***************************************************************************)
(* A model of coconut/_pyparsing.py: the import-time selection of the      *)
(* parsing engine and its version gate, the negotiation of the parsing     *)
(* mode, the packrat cache override _parseCache, the fast-repr override    *)
(* registry, the MatchFirst reordering estimate and the profiling          *)
(* instrumentation; and of the kernel installer of coconut/util.py.        *)
(*                                                                         *)
(* The specifications share the module's variables:                        *)
(*   Spec            the import of the module (lines 57-217)               *)
(*   SpecCache       calls of _parseCache on an imported pyparsing 2.x     *)
(*   SpecThreads     _parseCache called from two threads                   *)
(*   SpecReprs       set_fast_pyparsing_reprs / unset_fast_pyparsing_reprs *)
(*   SpecTiming      time_for_ordering / naive_timing_improvement          *)
(*   SpecMatchFirst  the profiled MatchFirst.parseImpl                     *)
(*   SpecProfiling   start_profiling and calls of the timed methods        *)
(*   SpecWrapper     add_timing_to_method and a call of its wrapper        *)
(*   SpecKernel      install_custom_kernel of coconut/util.py              *)
(* Each one keeps the variables of the other parts at their idle values.   *)
(***************************************************************************)
EXTENDS Integers, Sequences, FiniteSets, TLC

VARIABLES
    \* ---- environment of the import
    PY2,                    \* coconut.root.PY2: the host is Python 2
    PURE_PYTHON,            \* coconut.constants.PURE_PYTHON
    installed,              \* package name -> its __version__ string, or None
    min_versions,           \* coconut.constants.min_versions
    has_packrat_context,    \* hasattr(ParserElement, "packrat_context") of the engine
    has_enableIncremental,  \* hasattr(ParserElement, "enableIncremental") of the engine
    host_ge_38,             \* sys.version_info >= (3, 8)
    use_left_recursion_if_available,
    use_incremental_if_available,
    use_packrat_parser,
    \* ---- module globals set by the import
    pc,                     \* position of the import in the module body
    version,                \* __version__
    PYPARSING_PACKAGE,
    PYPARSING_INFO,
    cur_ver,
    MODERN_PYPARSING,
    SUPPORTS_INCREMENTAL,
    parseCache_installed,   \* ParserElement._parseCache is the override of line 127
    enabled,                \* the parsing modes switched on in ParserElement
    warnings,               \* the warn() calls so far, in order
    error,                  \* the exception that ended the import, or None
    traceback_printed,      \* traceback.print_exc() of line 80 ran
    \* ---- the packrat cache (SpecCache)
    packrat_cache,          \* ParserElement.packrat_cache: entries, oldest first
    packrat_cache_stats,    \* ParserElement.packrat_cache_stats: <<hits, misses>>
    packrat_context,        \* ParserElement.packrat_context
    heap,                   \* the ParseResults objects alive: id -> tokens
    ret,                    \* what the last _parseCache call gave its caller
    calls,                  \* number of _parseCache calls so far
    stored,                 \* key -> what the latest call with the key gave, if no
                            \*   entry of the key was evicted since; else nothing
    runs,                   \* key -> runs of _parseNoCache since the key's outcome
                            \*   was first cached, if not evicted since
    first_outcome,          \* key -> what the first call with that key gave
    last,                   \* the last call, as its caller saw it
    \* ---- the fast reprs (SpecReprs)
    use_fast_pyparsing_reprs,   \* coconut.constants.use_fast_pyparsing_reprs
    namespace,              \* vars(_pyparsing).values(), in the order of the dict
    class_dict,             \* class -> the __repr__ and __str__ of its own __dict__
    old_pyparsing_reprs,    \* _old_pyparsing_reprs
    repr_pc,                \* "import" until line 271 has run, then "ready"
    repr_calls,             \* number of set_/unset_fast_pyparsing_reprs calls so far
    sets_run,               \* set_ calls since the registry was last empty
    baseline,               \* class -> its __repr__, __str__ when the registry was
                            \*   last empty
    after_one_set,          \* the registry and the reprs after the first of those sets
    last_repr_op,           \* the last call: its name, and sets_run before it
    \* ---- the reordering estimate (SpecTiming)
    expr_usage_stats,       \* per alternative: the times it was the one that matched
    expr_timing_aves,       \* per alternative: the average time of a try
    timing_pc,              \* "input" until naive_timing_improvement has run
    improvement,            \* what naive_timing_improvement returned
    \* ---- a profiled MatchFirst (SpecMatchFirst)
    exprs,                  \* self.exprs: the alternatives of the node
    profiled_MatchFirst_objs,   \* _profiled_MatchFirst_objs: the ids it holds
    expr_timing_stats,      \* per alternative: the elapsed times of its tries
    mf_calls,               \* the e._parse calls of the last attempt, in order
    mf_result,              \* what the last attempt gave its caller
    attempts,               \* number of parseImpl calls so far
    won,                    \* per alternative: attempts it was the one to match
    tried,                  \* per alternative: attempts in which it was called
    \* ---- the timed methods (SpecProfiling)
    timing_info,            \* _timing_info[0]: str(self) -> total elapsed time
    profiling_runs,         \* number of start_profiling calls so far
    invocations,            \* number of method calls on parser elements so far
    last_invocation,        \* the last of those calls, as its caller saw it
    \* ---- the kernel installer of coconut/util.py (SpecKernel)
    WINDOWS,                \* coconut.constants.WINDOWS
    kernel_call,            \* the arguments of install_custom_kernel, the directories
                            \*   it found, and the steps that raise OSError if run
    kernel_fs,              \* the descriptor directory and the destination directory
    kernel_out,             \* what the call returned, warned and printed
    \* ---- a method given to add_timing_to_method (SpecWrapper)
    has_getargspec,         \* hasattr(inspect, "getargspec")
    timed_method,           \* the signature of the method
    timed_call,             \* the arguments of a call of the method, after self
    timed_func,             \* what add_timing_to_method made of the method
    timed_out,              \* how the call of the generated method went
    \* ---- threads in _parseCache (SpecThreads)
    packrat_cache_lock,     \* ParserElement.packrat_cache_lock: thread -> times held
    frames,                 \* thread -> its _parseCache calls, innermost first:
                            \*   the lookup key and the position in the call
    thread_calls,           \* number of _parseCache calls started so far
    lookups,                \* number of cache.get calls so far
    parses                  \* key -> number of _parseNoCache runs started for it

importEnv == <<PY2, PURE_PYTHON, installed, min_versions, has_packrat_context,
               has_enableIncremental, host_ge_38, use_left_recursion_if_available,
               use_incremental_if_available, use_packrat_parser>>

importGlobals == <<pc, version, PYPARSING_PACKAGE, PYPARSING_INFO, cur_ver,
                   MODERN_PYPARSING, SUPPORTS_INCREMENTAL, parseCache_installed,
                   enabled, warnings, error, traceback_printed>>

importVars == <<importEnv, importGlobals>>

reprVars == <<use_fast_pyparsing_reprs, namespace, class_dict, old_pyparsing_reprs,
              repr_pc, repr_calls, sets_run, baseline, after_one_set, last_repr_op>>

timingVars == <<expr_usage_stats, expr_timing_aves, timing_pc, improvement>>

matchVars == <<exprs, profiled_MatchFirst_objs, expr_timing_stats, mf_calls, mf_result,
               attempts, won, tried>>

timedVars == <<timing_info, profiling_runs, invocations, last_invocation>>

kernelVars == <<WINDOWS, kernel_call, kernel_fs, kernel_out>>

wrapVars == <<has_getargspec, timed_method, timed_call, timed_func, timed_out>>

threadVars == <<packrat_cache_lock, frames, thread_calls, lookups, parses>>

cacheVars == <<packrat_cache, packrat_cache_stats, packrat_context, heap, ret, calls,
               stored, runs, first_outcome, last>>

\* None, for the values that are otherwise sequences (strings, tuples).
None == <<>>

\* A module global that is not bound yet.
Unbound == "unbound"

NoError == [type |-> "none", at |-> "", requires |-> <<>>, got |-> <<>>, run |-> <<>>]

-----------------------------------------------------------------------------
(* Strings are sequences of one-character strings.                          *)

Digit == {"0", "1", "2", "3", "4", "5", "6", "7", "8", "9"}

DigitVal(c) ==
    CASE c = "0" -> 0 [] c = "1" -> 1 [] c = "2" -> 2 [] c = "3" -> 3
      [] c = "4" -> 4 [] c = "5" -> 5 [] c = "6" -> 6 [] c = "7" -> 7
      [] c = "8" -> 8 [] c = "9" -> 9

DigitChar(d) ==
    CASE d = 0 -> "0" [] d = 1 -> "1" [] d = 2 -> "2" [] d = 3 -> "3"
      [] d = 4 -> "4" [] d = 5 -> "5" [] d = 6 -> "6" [] d = 7 -> "7"
      [] d = 8 -> "8" [] d = 9 -> "9"

\* str.split("."): the pieces between the dots, empty pieces kept.
RECURSIVE SplitDots(_, _)
SplitDots(s, piece) ==
    IF s = <<>> THEN <<piece>>
    ELSE IF Head(s) = "." THEN <<piece>> \o SplitDots(Tail(s), <<>>)
    ELSE SplitDots(Tail(s), Append(piece, Head(s)))

\* int(x) of a decimal digit string.
RECURSIVE IntOfDigits(_, _)
IntOfDigits(s, acc) ==
    IF s = <<>> THEN acc ELSE IntOfDigits(Tail(s), 10 * acc + DigitVal(Head(s)))

\* str(x) of a natural number.
RECURSIVE StrOfNat(_)
StrOfNat(n) ==
    IF n < 10 THEN <<DigitChar(n)>> ELSE Append(StrOfNat(n \div 10), DigitChar(n % 10))

\* One element of a version tuple: an int, or the string int() refused.
IntElem(n) == [int |-> TRUE, n |-> n, s |-> <<>>]
StrElem(s) == [int |-> FALSE, n |-> 0, s |-> s]

\* The body of the loop of ver_str_to_tuple: int(x), x kept on ValueError.
VerElem(x) ==
    IF x # <<>> /\ \A i \in 1..Len(x) : x[i] \in Digit
    THEN IntElem(IntOfDigits(x, 0))
    ELSE StrElem(x)

ver_str_to_tuple(ver_str) ==
    LET pieces == SplitDots(ver_str, <<>>)
    IN  [i \in 1..Len(pieces) |-> VerElem(pieces[i])]

\* A tuple of ints, as the configuration writes them, in the same form.
IntTuple(t) == [i \in 1..Len(t) |-> IntElem(t[i])]

RECURSIVE JoinDots(_)
JoinDots(parts) ==
    IF parts = <<>> THEN <<>>
    ELSE IF Len(parts) = 1 THEN Head(parts)
    ELSE Head(parts) \o <<".">> \o JoinDots(Tail(parts))

ver_tuple_to_str(req_ver) ==
    JoinDots([i \in 1..Len(req_ver) |->
                 IF req_ver[i].int THEN StrOfNat(req_ver[i].n) ELSE req_ver[i].s])

get_next_version(req_ver) ==
    SubSeq(req_ver, 1, Len(req_ver) - 1)
        \o <<IntElem(req_ver[Len(req_ver)].n + 1)>>

\* Python's comparison of two tuples: the first index at which they differ
\* decides; with none, the shorter tuple is the smaller. An int against a str
\* raises TypeError on Python 3 and is the smaller of the two on Python 2.
\* The right-hand tuples of this module (min_ver, max_ver, (3,)) hold ints only.
FirstDiff(a, b) ==
    LET m == IF Len(a) < Len(b) THEN Len(a) ELSE Len(b)
        D == {i \in 1..m : a[i] # b[i]}
    IN  IF D = {} THEN 0 ELSE CHOOSE i \in D : \A j \in D : i <= j

TupleCmp(a, b, py2) ==
    LET i == FirstDiff(a, b)
    IN  IF i = 0
        THEN (IF Len(a) < Len(b) THEN "lt" ELSE IF Len(a) > Len(b) THEN "gt" ELSE "eq")
        ELSE IF a[i].int /\ b[i].int
             THEN (IF a[i].n < b[i].n THEN "lt" ELSE "gt")
        ELSE IF a[i].int THEN (IF py2 THEN "lt" ELSE "TypeError")
        ELSE IF b[i].int THEN (IF py2 THEN "gt" ELSE "TypeError")
        ELSE "TypeError"

TupleMin(a, b) == IF TupleCmp(b, a, FALSE) = "lt" THEN b ELSE a
TupleMax(a, b) == IF TupleCmp(b, a, FALSE) = "gt" THEN b ELSE a

Prefix(t, n) == SubSeq(t, 1, IF Len(t) < n THEN Len(t) ELSE n)

-----------------------------------------------------------------------------
(* VERSIONING, lines 90-95                                                  *)

min_ver == TupleMin(IntTuple(min_versions.pyparsing),
                    Prefix(IntTuple(min_versions.cPyparsing), 3))

max_ver == get_next_version(TupleMax(IntTuple(min_versions.pyparsing),
                                     Prefix(IntTuple(min_versions.cPyparsing), 3)))

min_ver_str == ver_tuple_to_str(min_ver)
max_ver_str == ver_tuple_to_str(max_ver)

ModernFloor == IntTuple(<<3>>)

-----------------------------------------------------------------------------
(* The environments the import is run in.                                   *)

\* __version__ strings of installed engines.
PyparsingVersions ==
    { <<"2", ".", "4">>,
      <<"2", ".", "4", ".", "6">>,
      <<"2", ".", "4", ".", "7">>,
      <<"2", ".", "4", ".", "7", "r", "c", "1">>,
      <<"2", ".", "4", ".", "8">>,
      <<"2", ".", "1", "0", ".", "0">>,
      <<"3">>,
      <<"3", ".", "0", ".", "0", "b", "2">>,
      <<"3", ".", "0", ".", "9">> }

CPyparsingVersions ==
    { <<"2", ".", "4", ".", "5", ".", "0", ".", "1", ".", "1">>,
      <<"2", ".", "4", ".", "7", ".", "1", ".", "0", ".", "0">>,
      <<"2", ".", "4", ".", "7", ".", "2", ".", "4", ".", "2">> }

\* The configured minimum versions. The warning of lines 113-116 tells the
\* user of a pyparsing v3 to install a version below max_ver, so the configured
\* minimums are 2.x versions; the cPyparsing one has more than three parts
\* (line 90 cuts it to three).
MinVersionsChoices ==
    { [pyparsing |-> <<2, 4, 7>>, cPyparsing |-> <<2, 4, 7, 2, 4, 2>>],
      [pyparsing |-> <<2, 4, 5>>, cPyparsing |-> <<2, 4, 7, 2, 4, 2>>],
      [pyparsing |-> <<2, 4, 7>>, cPyparsing |-> <<2, 4, 5, 0, 1, 1>>] }

NoModes == [left_recursion |-> FALSE, incremental |-> FALSE, packrat |-> FALSE]

ImportStart ==
    /\ pc = "import"
    /\ version = None
    /\ PYPARSING_PACKAGE = Unbound
    /\ PYPARSING_INFO = None
    /\ cur_ver = None
    /\ MODERN_PYPARSING = FALSE
    /\ SUPPORTS_INCREMENTAL = FALSE
    /\ parseCache_installed = FALSE
    /\ enabled = NoModes
    /\ warnings = <<>>
    /\ error = NoError
    /\ traceback_printed = FALSE

ImportEnvInit ==
    /\ PY2 \in BOOLEAN
    /\ PURE_PYTHON \in BOOLEAN
    /\ installed \in [cPyparsing : CPyparsingVersions \cup {None},
                      pyparsing : PyparsingVersions \cup {None}]
    /\ min_versions \in MinVersionsChoices
    /\ has_packrat_context \in BOOLEAN
    /\ has_enableIncremental \in BOOLEAN
    /\ host_ge_38 \in BOOLEAN
    /\ use_left_recursion_if_available \in BOOLEAN
    /\ use_incremental_if_available \in BOOLEAN
    /\ use_packrat_parser \in BOOLEAN

-----------------------------------------------------------------------------
(* The import of the module, block by block.                                *)

\* Lines 57-83: cPyparsing unless PURE_PYTHON, else pyparsing, else no engine.
ImportEngine ==
    /\ pc = "import"
    /\ LET tryC == ~PURE_PYTHON /\ installed.cPyparsing # None
           tryP == installed.pyparsing # None
       IN  IF tryC
           THEN /\ version' = installed.cPyparsing
                /\ PYPARSING_PACKAGE' = "cPyparsing"
                /\ PYPARSING_INFO' = <<"Cython cPyparsing v">> \o installed.cPyparsing
                /\ traceback_printed' = FALSE
           ELSE IF tryP
           THEN /\ version' = installed.pyparsing
                /\ PYPARSING_PACKAGE' = "pyparsing"
                /\ PYPARSING_INFO' = <<"Python pyparsing v">> \o installed.pyparsing
                /\ traceback_printed' = FALSE
           ELSE /\ version' = None
                /\ PYPARSING_PACKAGE' = "cPyparsing"
                /\ PYPARSING_INFO' = None
                /\ traceback_printed' = TRUE
    /\ pc' = "versioning"
    /\ UNCHANGED <<cur_ver, MODERN_PYPARSING, SUPPORTS_INCREMENTAL,
                   parseCache_installed, enabled, warnings, error>>
    /\ UNCHANGED importEnv
    /\ UNCHANGED <<cacheVars, reprVars, timingVars, matchVars, timedVars, kernelVars, wrapVars, threadVars>>

\* The ImportError of lines 98-102.
TooOldError ==
    [type |-> "ImportError",
     at |-> "versioning",
     requires |-> min_ver_str,
     got |-> PYPARSING_INFO,
     run |-> <<"-m pip install --upgrade", PYPARSING_PACKAGE>>]

\* The warning of lines 104-108.
TooNewWarning ==
    [kind |-> "built for versions <",
     limit |-> max_ver_str,
     got |-> PYPARSING_INFO,
     run |-> <<"-m pip install", PYPARSING_PACKAGE, "<">> \o max_ver_str]

\* The warning of lines 113-116.
ModernWarning ==
    [kind |-> "not built for pyparsing v3",
     limit |-> max_ver_str,
     got |-> None,
     run |-> <<"-m pip install", "cPyparsing or pyparsing", "<">> \o max_ver_str]

\* The TypeError of an int compared with a str on Python 3 (lines 97-110).
RaisedTypeError ==
    [type |-> "TypeError", at |-> "versioning", requires |-> <<>>, got |-> <<>>,
     run |-> <<>>]

\* The gate with the version comparison left out.
BelowMinOnlyNone(cv) == cv = None

\* Line 97: cur_ver is None or cur_ver < min_ver.
BelowMin(cv) == cv = None \/ TupleCmp(cv, min_ver, PY2) = "lt"

\* The upper bound tested against min_ver.
AtOrAboveMin(cv) == cv # None /\ TupleCmp(cv, min_ver, PY2) \in {"eq", "gt"}

\* Line 103: cur_ver >= max_ver.
AtOrAboveMax(cv) == cv # None /\ TupleCmp(cv, max_ver, PY2) \in {"eq", "gt"}

\* The modern flag set from the upper bound of the supported range.
IsModernFromMax(cv) == cv # None /\ TupleCmp(cv, max_ver, PY2) \in {"eq", "gt"}

\* Line 110: cur_ver >= (3,).
IsModern(cv) == cv # None /\ TupleCmp(cv, ModernFloor, PY2) \in {"eq", "gt"}

\* Lines 90-116: the version gate and MODERN_PYPARSING.
VersionGate ==
    /\ pc = "versioning"
    /\ LET cv == IF version = None THEN None ELSE ver_str_to_tuple(version)
           tooNew == IF AtOrAboveMax(cv) THEN <<TooNewWarning>> ELSE <<>>
           modern == IF IsModern(cv) THEN <<ModernWarning>> ELSE <<>>
       IN  /\ cur_ver' = cv
           /\ IF cv # None /\ TupleCmp(cv, min_ver, PY2) = "TypeError"
              THEN /\ error' = RaisedTypeError
                   /\ pc' = "failed"
                   /\ UNCHANGED <<warnings, MODERN_PYPARSING>>
              ELSE IF BelowMin(cv)
              THEN /\ error' = TooOldError
                   /\ pc' = "failed"
                   /\ UNCHANGED <<warnings, MODERN_PYPARSING>>
              ELSE IF TupleCmp(cv, max_ver, PY2) = "TypeError"
              THEN /\ error' = RaisedTypeError
                   /\ pc' = "failed"
                   /\ UNCHANGED <<warnings, MODERN_PYPARSING>>
              ELSE IF TupleCmp(cv, ModernFloor, PY2) = "TypeError"
              THEN /\ error' = RaisedTypeError
                   /\ pc' = "failed"
                   /\ warnings' = warnings \o tooNew
                   /\ UNCHANGED MODERN_PYPARSING
              ELSE /\ warnings' = warnings \o tooNew \o modern
                   /\ MODERN_PYPARSING' = IsModern(cv)
                   /\ pc' = "overrides"
                   /\ UNCHANGED error
    /\ UNCHANGED <<version, PYPARSING_PACKAGE, PYPARSING_INFO, SUPPORTS_INCREMENTAL,
                   parseCache_installed, enabled, traceback_printed>>
    /\ UNCHANGED importEnv
    /\ UNCHANGED <<cacheVars, reprVars, timingVars, matchVars, timedVars, kernelVars, wrapVars, threadVars>>

\* The ImportError of lines 153-157.
OldCPyparsingError ==
    [type |-> "ImportError",
     at |-> "overrides",
     requires |-> ver_tuple_to_str(IntTuple(min_versions.cPyparsing)),
     got |-> <<"cPyparsing==">> \o version,
     run |-> <<"-m pip install --upgrade", "cPyparsing">>]

\* Lines 123-157: the packrat override on a pyparsing 2.x, the packrat_context
\* check on cPyparsing.
Overrides ==
    /\ pc = "overrides"
    /\ IF PYPARSING_PACKAGE # "cPyparsing"
       THEN /\ parseCache_installed' = ~MODERN_PYPARSING
            /\ pc' = "incremental"
            /\ UNCHANGED error
       ELSE IF ~has_packrat_context
       THEN /\ error' = OldCPyparsingError
            /\ pc' = "failed"
            /\ UNCHANGED parseCache_installed
       ELSE /\ pc' = "incremental"
            /\ UNCHANGED <<error, parseCache_installed>>
    /\ UNCHANGED <<version, PYPARSING_PACKAGE, PYPARSING_INFO, cur_ver, MODERN_PYPARSING,
                   SUPPORTS_INCREMENTAL, enabled, warnings, traceback_printed>>
    /\ UNCHANGED importEnv
    /\ UNCHANGED <<cacheVars, reprVars, timingVars, matchVars, timedVars, kernelVars, wrapVars, threadVars>>

\* Lines 159-164.
DetectIncremental ==
    /\ pc = "incremental"
    /\ SUPPORTS_INCREMENTAL' = (has_enableIncremental /\ host_ge_38)
    /\ pc' = "setup"
    /\ UNCHANGED <<version, PYPARSING_PACKAGE, PYPARSING_INFO, cur_ver, MODERN_PYPARSING,
                   parseCache_installed, enabled, warnings, error, traceback_printed>>
    /\ UNCHANGED importEnv
    /\ UNCHANGED <<cacheVars, reprVars, timingVars, matchVars, timedVars, kernelVars, wrapVars, threadVars>>

\* Line 203: the if of the chain.
EnablesLeftRecursion == MODERN_PYPARSING /\ use_left_recursion_if_available

\* Line 205: the first elif of the chain.
EnablesIncremental ==
    /\ ~EnablesLeftRecursion
    /\ SUPPORTS_INCREMENTAL /\ use_incremental_if_available

\* The packrat branch as an if of its own.
EnablesPackratAlways == use_packrat_parser

\* Line 207: the second elif of the chain.
EnablesPackrat ==
    /\ ~EnablesLeftRecursion
    /\ ~(SUPPORTS_INCREMENTAL /\ use_incremental_if_available)
    /\ use_packrat_parser

\* Lines 203-208: ParserElement.enable_left_recursion / enableIncremental /
\* enablePackrat, each switching its own mode on.
Negotiate ==
    /\ pc = "setup"
    /\ enabled' = [left_recursion |-> enabled.left_recursion \/ EnablesLeftRecursion,
                   incremental |-> enabled.incremental \/ EnablesIncremental,
                   packrat |-> enabled.packrat \/ EnablesPackrat]
    /\ pc' = "done"
    /\ UNCHANGED <<version, PYPARSING_PACKAGE, PYPARSING_INFO, cur_ver, MODERN_PYPARSING,
                   SUPPORTS_INCREMENTAL, parseCache_installed, warnings, error,
                   traceback_printed>>
    /\ UNCHANGED importEnv
    /\ UNCHANGED <<cacheVars, reprVars, timingVars, matchVars, timedVars, kernelVars, wrapVars, threadVars>>

-----------------------------------------------------------------------------
(* OVERRIDES, lines 123-150: the packrat cache of a pyparsing 2.x.          *)

HIT == 0
MISS == 1

\* Size of the cache enablePackrat(packrat_cache_size) creates (line 208).
packrat_cache_size == 2

\* Number of _parseCache calls a behaviour makes.
MaxCalls == 4

Elems == {"e1", "e2"}
Instrings == {"s"}
Locs == {0}

\* Line 129: the lookup key. The signature takes doActions before callPreParse,
\* the key holds callPreParse before doActions.
Lookup(self, instring, loc, doActions, callPreParse) ==
    <<self, instring, loc, callPreParse, doActions, packrat_context>>

Keys == {Lookup(e, i, l, d, c) :
            e \in Elems, i \in Instrings, l \in Locs, d \in BOOLEAN, c \in {TRUE}}

NoArgs == [pstr |-> "", loc |-> -1, msg |-> ""]

\* What a call gives its caller: a return of (loc, tokens), or a raise.
NoOutcome ==
    [kind |-> "none", loc |-> -1, tokens |-> <<>>, cls |-> "", args |-> NoArgs]
Returned(loc, tokens) ==
    [kind |-> "return", loc |-> loc, tokens |-> tokens, cls |-> "", args |-> NoArgs]
Raised(kind, cls, args) ==
    [kind |-> kind, loc |-> -1, tokens |-> <<>>, cls |-> cls, args |-> args]

\* What _parseNoCache may do at a key: return a result, raise a ParseException
\* (a ParseBaseException), or raise another exception (the IndexError that
\* line 443 expects of a parse). Two runs at one key need not agree.
NoCacheOutcomes(instring, loc) ==
    { Returned(loc + 1, <<"a">>),
      Returned(loc + 1, <<"b">>),
      Raised("parse_error", "ParseException",
             [pstr |-> instring, loc |-> loc, msg |-> "Expected a"]),
      Raised("other_error", "IndexError", NoArgs) }

\* ---- the ParseResults objects
Free == <<"free">>
\* The ids of the objects; 0 stands for no object.
ObjIds == 1..(packrat_cache_size + 2)

Alloc(h) == CHOOSE i \in ObjIds : h[i] = Free /\ \A j \in ObjIds : h[j] = Free => i <= j

\* ---- the cache object: get, set, not_in_cache
not_in_cache == [key |-> <<>>, kind |-> "not_in_cache", loc |-> -1, obj |-> 0,
                 cls |-> "", args |-> NoArgs]

CacheGet(cache, lookup) ==
    IF \E i \in 1..Len(cache) : cache[i].key = lookup
    THEN cache[CHOOSE i \in 1..Len(cache) : cache[i].key = lookup]
    ELSE not_in_cache

\* set: the entry replaces the one of its key or is added as the newest; the
\* oldest entries are dropped while the cache is over its size.
RECURSIVE DropOldest(_)
DropOldest(cache) ==
    IF Len(cache) > packrat_cache_size THEN DropOldest(Tail(cache)) ELSE cache

CacheSet(cache, entry) ==
    IF \E i \in 1..Len(cache) : cache[i].key = entry.key
    THEN [i \in 1..Len(cache) |-> IF cache[i].key = entry.key THEN entry ELSE cache[i]]
    ELSE DropOldest(Append(cache, entry))

CachedKeys(cache) == {cache[i].key : i \in 1..Len(cache)}

\* The stored exception built without the arguments of the raised one.
CachedExceptionNoArgs(lookup, pe) ==
    [key |-> lookup, kind |-> "exception", loc |-> -1, obj |-> 0,
     cls |-> pe.cls, args |-> NoArgs]

\* Line 139: pe.__class__(*pe.args), the exception stored for the key.
CachedException(lookup, pe) ==
    [key |-> lookup, kind |-> "exception", loc |-> -1, obj |-> 0,
     cls |-> pe.cls, args |-> pe.args]

\* The result stored without the copy: the object handed to the caller.
CachedResultNoCopy(lookup, loc, original, copy) ==
    [key |-> lookup, kind |-> "result", loc |-> loc, obj |-> original,
     cls |-> "", args |-> NoArgs]

\* Line 142: (value[0], value[1].copy()), the result stored for the key;
\* copy is the object the copy was put in.
CachedResult(lookup, loc, original, copy) ==
    [key |-> lookup, kind |-> "result", loc |-> loc, obj |-> copy,
     cls |-> "", args |-> NoArgs]

\* Lines 139 and 142: cache.set(lookup, ...).
StoreInCache(cache, entry) == CacheSet(cache, entry)

\* The hit handing out the cached object itself.
HitResultCached(value, fresh) == value

\* Line 148: value[1].copy() of a hit; fresh is a new object.
HitResultObj(value, fresh) == fresh

Bump(stats, which) == [stats EXCEPT ![which + 1] = @ + 1]

Live(cache, r) ==
    {cache[i].obj : i \in {j \in 1..Len(cache) : cache[j].kind = "result"}}
        \cup (IF r.kind = "return" THEN {r.obj} ELSE {})

Collect(h, cache, r) == [i \in ObjIds |-> IF i \in Live(cache, r) THEN h[i] ELSE Free]

NoRet == [kind |-> "none", loc |-> -1, obj |-> 0, cls |-> "", args |-> NoArgs]

\* The outcome a caller sees in r, with the tokens the object holds in h.
Seen(r, h) ==
    IF r.kind = "return" THEN Returned(r.loc, h[r.obj])
    ELSE IF r.kind = "none" THEN NoOutcome
    ELSE Raised(r.kind, r.cls, r.args)

\* The keys whose entry a cache.set dropped.
Evicted(before, after) == CachedKeys(before) \ CachedKeys(after)

\* The history variables after a call at lookup that gave r (heap h), the
\* cache going from c0 to c; hit: the call did not run _parseNoCache.
Record(lookup, r, h, c0, c, hit) ==
    /\ calls' = calls + 1
    /\ last' = [key |-> lookup, out |-> Seen(r, h), hit |-> hit,
                prior |-> stored[lookup], first |-> first_outcome[lookup],
                runs |-> IF hit THEN runs[lookup]
                         ELSE IF stored[lookup].kind \in {"return", "parse_error"}
                              THEN runs[lookup] + 1
                              ELSE 1]
    /\ stored' = [k \in Keys |->
                    IF k \in Evicted(c0, c) THEN NoOutcome
                    ELSE IF k = lookup THEN Seen(r, h)
                    ELSE stored[k]]
    /\ runs' = [k \in Keys |->
                    IF k \in Evicted(c0, c) THEN 0
                    ELSE IF k # lookup THEN runs[k]
                    ELSE IF hit THEN runs[k]
                    ELSE IF stored[k].kind \in {"return", "parse_error"}
                         THEN runs[k] + 1
                         ELSE 1]
    /\ first_outcome' = [first_outcome EXCEPT ![lookup] =
                            IF @ = NoOutcome THEN Seen(r, h) ELSE @]

\* Lines 127-148: one call of _parseCache, under packrat_cache_lock.
parseCache(self, instring, loc, doActions, callPreParse) ==
    /\ parseCache_installed
    /\ calls < MaxCalls
    /\ LET lookup == Lookup(self, instring, loc, doActions, callPreParse)
           cache == packrat_cache
           value == CacheGet(cache, lookup)
           h0 == Collect(heap, cache, NoRet)       \* the caller dropped its last result
       IN  IF value = not_in_cache
           THEN /\ packrat_cache_stats' = Bump(packrat_cache_stats, MISS)
                /\ \E out \in NoCacheOutcomes(instring, loc) :
                     IF out.kind = "parse_error"
                     THEN LET c == StoreInCache(cache, CachedException(lookup, out))
                              r == [kind |-> "parse_error", loc |-> -1, obj |-> 0,
                                    cls |-> out.cls, args |-> out.args]
                          IN  /\ packrat_cache' = c
                              /\ ret' = r
                              /\ heap' = Collect(h0, c, r)
                              /\ Record(lookup, r, h0, cache, c, FALSE)
                     ELSE IF out.kind = "other_error"
                     THEN LET r == [kind |-> "other_error", loc |-> -1, obj |-> 0,
                                    cls |-> out.cls, args |-> out.args]
                          IN  /\ packrat_cache' = cache
                              /\ ret' = r
                              /\ heap' = Collect(h0, cache, r)
                              /\ Record(lookup, r, h0, cache, cache, FALSE)
                     ELSE LET o == Alloc(h0)
                              h1 == [h0 EXCEPT ![o] = out.tokens]
                              n == Alloc(h1)
                              h2 == [h1 EXCEPT ![n] = h1[o]]
                              entry == CachedResult(lookup, out.loc, o, n)
                              c == StoreInCache(cache, entry)
                              r == [kind |-> "return", loc |-> out.loc, obj |-> o,
                                    cls |-> "", args |-> NoArgs]
                          IN  /\ packrat_cache' = c
                              /\ ret' = r
                              /\ heap' = Collect(h2, c, r)
                              /\ Record(lookup, r, h2, cache, c, FALSE)
           ELSE /\ packrat_cache_stats' = Bump(packrat_cache_stats, HIT)
                /\ packrat_cache' = cache
                /\ IF value.kind = "exception"
                   THEN LET r == [kind |-> "parse_error", loc |-> -1, obj |-> 0,
                                  cls |-> value.cls, args |-> value.args]
                        IN  /\ ret' = r
                            /\ heap' = Collect(h0, cache, r)
                            /\ Record(lookup, r, h0, cache, cache, TRUE)
                   ELSE LET n == Alloc(h0)
                            h1 == [h0 EXCEPT ![n] = h0[value.obj]]
                            r == [kind |-> "return", loc |-> value.loc,
                                  obj |-> HitResultObj(value.obj, n),
                                  cls |-> "", args |-> NoArgs]
                        IN  /\ ret' = r
                            /\ heap' = Collect(h1, cache, r)
                            /\ Record(lookup, r, h1, cache, cache, TRUE)
    /\ UNCHANGED packrat_context

\* A caller calls element._parse, which is _parseCache.
CallParseCache ==
    /\ \E self \in Elems, instring \in Instrings, loc \in Locs, doActions \in BOOLEAN :
          parseCache(self, instring, loc, doActions, TRUE)
    /\ UNCHANGED <<importVars, reprVars, timingVars, matchVars, timedVars, kernelVars, wrapVars, threadVars>>

\* The caller changes the ParseResults it was returned (append, insert, ...).
MutateReturned ==
    /\ ret.kind = "return"
    /\ Len(heap[ret.obj]) < 2
    /\ heap' = [heap EXCEPT ![ret.obj] = Append(@, "x")]
    /\ UNCHANGED <<packrat_cache, packrat_cache_stats, packrat_context, ret, calls,
                   stored, runs, first_outcome, last>>
    /\ UNCHANGED <<importVars, reprVars, timingVars, matchVars, timedVars, kernelVars, wrapVars, threadVars>>

NoCall == [key |-> <<>>, out |-> NoOutcome, hit |-> FALSE, prior |-> NoOutcome,
           first |-> NoOutcome, runs |-> 0]

CacheIdle ==
    /\ packrat_cache = <<>>
    /\ packrat_cache_stats = <<0, 0>>
    /\ packrat_context = <<>>
    /\ heap = [i \in ObjIds |-> Free]
    /\ ret = NoRet
    /\ calls = 0
    /\ stored = [k \in Keys |-> NoOutcome]
    /\ runs = [k \in Keys |-> 0]
    /\ first_outcome = [k \in Keys |-> NoOutcome]
    /\ last = NoCall

\* The module as imported with pyparsing 2.4.7 and the packrat parser on.
ImportedPyparsing2 ==
    /\ PY2 = FALSE
    /\ PURE_PYTHON = FALSE
    /\ installed = [cPyparsing |-> None, pyparsing |-> <<"2", ".", "4", ".", "7">>]
    /\ min_versions = [pyparsing |-> <<2, 4, 7>>, cPyparsing |-> <<2, 4, 7, 2, 4, 2>>]
    /\ has_packrat_context = FALSE
    /\ has_enableIncremental = FALSE
    /\ host_ge_38 = TRUE
    /\ use_left_recursion_if_available = FALSE
    /\ use_incremental_if_available = FALSE
    /\ use_packrat_parser = TRUE
    /\ pc = "done"
    /\ version = <<"2", ".", "4", ".", "7">>
    /\ PYPARSING_PACKAGE = "pyparsing"
    /\ PYPARSING_INFO = <<"Python pyparsing v", "2", ".", "4", ".", "7">>
    /\ cur_ver = ver_str_to_tuple(<<"2", ".", "4", ".", "7">>)
    /\ MODERN_PYPARSING = FALSE
    /\ SUPPORTS_INCREMENTAL = FALSE
    /\ parseCache_installed = TRUE
    /\ enabled = [left_recursion |-> FALSE, incremental |-> FALSE, packrat |-> TRUE]
    /\ warnings = <<>>
    /\ error = NoError
    /\ traceback_printed = FALSE

-----------------------------------------------------------------------------
(* FAST REPRS, lines 239-271.                                               *)

\* Number of set_/unset_fast_pyparsing_reprs calls a behaviour makes.
MaxReprCalls == 4

\* The objects of the engine module: parser-element classes, a class that is
\* no parser element, and a value that is no class.
PEClasses == {"ParserElement", "Token", "Literal"}
OtherClasses == {"ParseResults"}
NonClasses == {"__version__"}
ModuleObjects == PEClasses \cup OtherClasses \cup NonClasses

\* The base class of each class.
Base(cls) ==
    CASE cls = "Literal" -> "Token"
      [] cls = "Token" -> "ParserElement"
      [] cls = "MatchFirst" -> "ParserElement"
      [] OTHER -> "object"

\* A function: the __repr__/__str__ a class body defines, or the partial of
\* lines 256-257.
DefinedIn(cls, attr) == <<"def", cls, attr>>
Absent == <<"absent", "", "">>

\* Lines 239-244: fast_repr.
fast_repr == IF PY2 THEN "fast_repr" ELSE "object.__repr__"

\* functools.partial(fast_repr, obj)
FastPartial(obj) == <<"partial", fast_repr, obj>>

\* getattr(cls, attr): the entry of the first __dict__ along the bases.
RECURSIVE GetAttr(_, _, _)
GetAttr(dicts, cls, attr) ==
    IF cls = "object" THEN DefinedIn("object", attr)
    ELSE IF dicts[cls][attr] # Absent THEN dicts[cls][attr]
    ELSE GetAttr(dicts, Base(cls), attr)

\* issubclass(obj, ParserElement); TypeError for an obj that is no class.
IsSubclassOfParserElement(obj) == obj \in PEClasses

\* Line 255: the pair recorded for obj.
OldReprs(dicts, obj) ==
    [obj |-> obj,
     repr_method |-> GetAttr(dicts, obj, "__repr__"),
     str_method |-> GetAttr(dicts, obj, "__str__")]

\* Lines 252-259 from the i-th object of the namespace on.
RECURSIVE SetFrom(_, _, _)
SetFrom(i, dicts, registry) ==
    IF i > Len(namespace) THEN [dicts |-> dicts, registry |-> registry]
    ELSE LET obj == namespace[i]
         IN  IF obj \in NonClasses \/ ~IsSubclassOfParserElement(obj)
             THEN SetFrom(i + 1, dicts, registry)
             ELSE SetFrom(i + 1,
                          [dicts EXCEPT ![obj] = [__repr__ |-> FastPartial(obj),
                                                  __str__ |-> FastPartial(obj)]],
                          Append(registry, OldReprs(dicts, obj)))

\* Lines 264-266 from the i-th record of the registry on.
RECURSIVE RestoreFrom(_, _, _)
RestoreFrom(i, dicts, registry) ==
    IF i > Len(registry) THEN dicts
    ELSE RestoreFrom(i + 1,
                     [dicts EXCEPT ![registry[i].obj] =
                         [__repr__ |-> registry[i].repr_method,
                          __str__ |-> registry[i].str_method]],
                     registry)

\* What cls.__repr__ and cls.__str__ evaluate to, for every parser-element class.
Reprs(dicts) ==
    [cls \in PEClasses |-> [__repr__ |-> GetAttr(dicts, cls, "__repr__"),
                            __str__ |-> GetAttr(dicts, cls, "__str__")]]

\* The effect of set_fast_pyparsing_reprs (lines 250-259) on the state.
DoSet ==
    LET after == SetFrom(1, class_dict, old_pyparsing_reprs)
    IN  /\ class_dict' = after.dicts
        /\ old_pyparsing_reprs' = after.registry
        /\ sets_run' = sets_run + 1
        /\ baseline' = IF old_pyparsing_reprs = <<>> THEN Reprs(class_dict) ELSE baseline
        /\ after_one_set' = IF old_pyparsing_reprs = <<>>
                            THEN [registry |-> after.registry, reprs |-> Reprs(after.dicts)]
                            ELSE after_one_set
        /\ last_repr_op' = [op |-> "set", sets_before |-> sets_run]

\* Lines 270-271: the call at import under use_fast_pyparsing_reprs.
ImportFastReprs ==
    /\ repr_pc = "import"
    /\ repr_pc' = "ready"
    /\ IF use_fast_pyparsing_reprs
       THEN DoSet
       ELSE UNCHANGED <<class_dict, old_pyparsing_reprs, sets_run, baseline,
                        after_one_set, last_repr_op>>
    /\ UNCHANGED <<use_fast_pyparsing_reprs, namespace, repr_calls>>
    /\ UNCHANGED <<importVars, cacheVars, timingVars, matchVars, timedVars, kernelVars, wrapVars, threadVars>>

\* Lines 250-259: set_fast_pyparsing_reprs().
set_fast_pyparsing_reprs ==
    /\ repr_pc = "ready"
    /\ repr_calls < MaxReprCalls
    /\ repr_calls' = repr_calls + 1
    /\ DoSet
    /\ UNCHANGED <<use_fast_pyparsing_reprs, namespace, repr_pc>>
    /\ UNCHANGED <<importVars, cacheVars, timingVars, matchVars, timedVars, kernelVars, wrapVars, threadVars>>

\* Lines 262-267: unset_fast_pyparsing_reprs().
unset_fast_pyparsing_reprs ==
    /\ repr_pc = "ready"
    /\ repr_calls < MaxReprCalls
    /\ repr_calls' = repr_calls + 1
    /\ class_dict' = RestoreFrom(1, class_dict, old_pyparsing_reprs)
    /\ old_pyparsing_reprs' = <<>>
    /\ sets_run' = 0
    /\ last_repr_op' = [op |-> "unset", sets_before |-> sets_run]
    /\ UNCHANGED <<baseline, after_one_set>>
    /\ UNCHANGED <<use_fast_pyparsing_reprs, namespace, repr_pc>>
    /\ UNCHANGED <<importVars, cacheVars, timingVars, matchVars, timedVars, kernelVars, wrapVars, threadVars>>

\* The orders a dict can hold the module's objects in.
Orders ==
    {o \in [1..Cardinality(ModuleObjects) -> ModuleObjects] :
        \A i, j \in DOMAIN o : i # j => o[i] # o[j]}

\* The classes as the engine module defines them: ParserElement defines both
\* methods, a subclass may define either.
ReprsStart ==
    /\ use_fast_pyparsing_reprs \in BOOLEAN
    /\ namespace \in Orders
    /\ \E defines \in [PEClasses \ {"ParserElement"} -> [__repr__ : BOOLEAN, __str__ : BOOLEAN]] :
          class_dict = [cls \in PEClasses |->
                          IF cls = "ParserElement"
                          THEN [__repr__ |-> DefinedIn(cls, "__repr__"),
                                __str__ |-> DefinedIn(cls, "__str__")]
                          ELSE [__repr__ |-> IF defines[cls].__repr__
                                             THEN DefinedIn(cls, "__repr__") ELSE Absent,
                                __str__ |-> IF defines[cls].__str__
                                            THEN DefinedIn(cls, "__str__") ELSE Absent]]
    /\ old_pyparsing_reprs = <<>>
    /\ repr_pc = "import"
    /\ repr_calls = 0
    /\ sets_run = 0
    /\ baseline = Reprs(class_dict)
    /\ after_one_set = [registry |-> <<>>, reprs |-> Reprs(class_dict)]
    /\ last_repr_op = [op |-> "none", sets_before |-> 0]

\* The state of this part while another part of the module is looked at.
ReprsIdle ==
    /\ use_fast_pyparsing_reprs = FALSE
    /\ namespace = <<>>
    /\ class_dict = <<>>
    /\ old_pyparsing_reprs = <<>>
    /\ repr_pc = "ready"
    /\ repr_calls = 0
    /\ sets_run = 0
    /\ baseline = <<>>
    /\ after_one_set = <<>>
    /\ last_repr_op = [op |-> "none", sets_before |-> 0]

-----------------------------------------------------------------------------
(* PROFILING, lines 457-471: the MatchFirst reordering estimate.            *)

\* Largest number of alternatives of a MatchFirst.
MaxAlts == 3

UsageValues == {0, 1, 2, 100}
TimeValues == {0, 1, 10}

\* sum(seq[:n])
RECURSIVE SumFirst(_, _)
SumFirst(seq, n) ==
    IF n = 0 \/ seq = <<>> THEN 0
    ELSE SumFirst(seq, (IF n < Len(seq) THEN n ELSE Len(seq)) - 1)
         + seq[IF n < Len(seq) THEN n ELSE Len(seq)]

\* Lines 457-462: the loop from index i (of enumerate, from 0) on.
RECURSIVE TimeFrom(_, _, _)
TimeFrom(i, usage, aves) ==
    IF i >= Len(usage) THEN 0
    ELSE usage[i + 1] * SumFirst(aves, i + 1) + TimeFrom(i + 1, usage, aves)

time_for_ordering(usage, aves) == TimeFrom(0, usage, aves)

\* zip(a, b): pairs, as many as the shorter one has.
Zip(a, b) ==
    [i \in 1..(IF Len(a) < Len(b) THEN Len(a) ELSE Len(b)) |-> <<a[i], b[i]>>]

\* The order of 2-tuples of numbers.
PairLess(p, q) == p[1] < q[1] \/ (p[1] = q[1] /\ p[2] < q[2])

\* sorted(pairs, reverse=True): descending, equal pairs in their given order.
RECURSIVE InsertDescending(_, _)
InsertDescending(sorted, p) ==
    IF sorted = <<>> THEN <<p>>
    ELSE IF PairLess(Head(sorted), p) THEN <<p>> \o sorted
    ELSE <<Head(sorted)>> \o InsertDescending(Tail(sorted), p)

RECURSIVE SortedDescending(_)
SortedDescending(pairs) ==
    IF pairs = <<>> THEN <<>>
    ELSE InsertDescending(SortedDescending(SubSeq(pairs, 1, Len(pairs) - 1)),
                          pairs[Len(pairs)])

\* Lines 467-470: the two sequences in the order of descending usage.
UsageOrdered(usage, aves) ==
    LET pairs == SortedDescending(Zip(usage, aves))
    IN  [usage |-> [i \in 1..Len(pairs) |-> pairs[i][1]],
         aves |-> [i \in 1..Len(pairs) |-> pairs[i][2]]]

\* The difference taken the other way round: recorded order minus usage order.
naive_timing_improvement_swapped(usage, aves) ==
    time_for_ordering(usage, aves)
        - time_for_ordering(UsageOrdered(usage, aves).usage, UsageOrdered(usage, aves).aves)

\* Lines 465-471.
naive_timing_improvement(usage, aves) ==
    time_for_ordering(UsageOrdered(usage, aves).usage, UsageOrdered(usage, aves).aves)
        - time_for_ordering(usage, aves)

\* Line 478: naive_timing_improvement(obj.expr_usage_stats, obj.expr_timing_aves).
CallNaiveTimingImprovement ==
    /\ timing_pc = "input"
    /\ improvement' = naive_timing_improvement(expr_usage_stats, expr_timing_aves)
    /\ timing_pc' = "done"
    /\ UNCHANGED <<expr_usage_stats, expr_timing_aves>>
    /\ UNCHANGED <<importVars, cacheVars, reprVars, matchVars, timedVars, kernelVars, wrapVars, threadVars>>

\* A MatchFirst of 1 to MaxAlts alternatives with its statistics.
TimingStart ==
    /\ \E n \in 1..MaxAlts :
          /\ expr_usage_stats \in [1..n -> UsageValues]
          /\ expr_timing_aves \in [1..n -> TimeValues]
    /\ timing_pc = "input"
    /\ improvement = 0

TimingIdle ==
    /\ expr_usage_stats = <<>>
    /\ expr_timing_aves = <<>>
    /\ timing_pc = "idle"
    /\ improvement = 0

-----------------------------------------------------------------------------
(* PROFILING, lines 417-454: the profiled MatchFirst.parseImpl.             *)

\* Number of parseImpl calls a behaviour makes.
MaxAttempts == 2

\* The string the attempts parse, from location 0.
mf_instring == <<"a">>

\* id(self) of the node, the key of _profiled_MatchFirst_objs.
MatchFirstNode == "m"

\* What e._parse(instring, loc, doActions) may do: return a result, raise a
\* ParseException at a location of the string, raise IndexError, or raise
\* something the loop does not catch (ParseFatalException). took is
\* get_clock_time() - start_time of the call: one tick of the clock.
ParseOutcomes(e) ==
    {[kind |-> "return", loc |-> Len(mf_instring), tokens |-> <<e>>, msg |-> "", took |-> 1],
     [kind |-> "ParseFatalException", loc |-> 0, tokens |-> <<>>, msg |-> "fatal", took |-> 1],
     [kind |-> "IndexError", loc |-> -1, tokens |-> <<>>, msg |-> "", took |-> 1]}
        \cup {[kind |-> "ParseException", loc |-> l, tokens |-> <<>>, msg |-> "Expected",
                took |-> 1] : l \in 0..Len(mf_instring)}

\* No exception kept (maxException is None); no attempt made yet.
NoException == [kind |-> "none", loc |-> -1, tokens |-> <<>>, from |-> 0, msg |-> ""]

\* A ParseException as the caller of parseImpl sees it; from: the alternative
\* whose failure it reports, 0 if none.
ParseExceptionAt(loc, from, msg) ==
    [kind |-> "ParseException", loc |-> loc, tokens |-> <<>>, from |-> from, msg |-> msg]

\* The comparison taken with >=: a later failure at the same location wins.
FurtherOrEqual(loc, maxExcLoc) == loc >= maxExcLoc

\* Lines 439 and 443: err.loc > maxExcLoc, len(instring) > maxExcLoc.
Further(loc, maxExcLoc) == loc > maxExcLoc

\* The sample kept in place of the earlier ones.
RecordTryReplacing(timing, i, elapsed) == [timing EXCEPT ![i] = <<elapsed>>]

\* Line 436: self.expr_timing_stats[i].append(get_clock_time() - start_time).
RecordTry(timing, i, elapsed) == [timing EXCEPT ![i] = Append(@, elapsed)]

\* Line 437: self.expr_usage_stats[i] += 1.
CountUse(usage, i) == [usage EXCEPT ![i] = @ + 1]

\* Lines 430-453: the loop from alternative i on (i counts from 1) and its
\* else branch. outs[i] is what the call of alternative i does if it is made.
RECURSIVE TryFrom(_, _, _, _, _, _, _, _)
TryFrom(i, es, outs, maxExcLoc, maxException, usage, timing, called) ==
    IF i > Len(es)
    THEN [result |-> IF maxException # NoException
                     THEN [maxException EXCEPT !.msg = "self.errmsg"]
                     ELSE ParseExceptionAt(0, 0, "no defined alternatives to match"),
          usage |-> usage, timing |-> timing, called |-> called]
    ELSE LET out == outs[i]
             timing1 == RecordTry(timing, i, out.took)
             called1 == Append(called, [alt |-> i, out |-> out])
         IN  IF out.kind = "return"
             THEN [result |-> [kind |-> "return", loc |-> out.loc, tokens |-> out.tokens,
                               from |-> i, msg |-> ""],
                   usage |-> CountUse(usage, i), timing |-> timing1, called |-> called1]
             ELSE IF out.kind = "ParseException"
             THEN IF Further(out.loc, maxExcLoc)
                  THEN TryFrom(i + 1, es, outs, out.loc,
                               ParseExceptionAt(out.loc, i, out.msg),
                               usage, timing1, called1)
                  ELSE TryFrom(i + 1, es, outs, maxExcLoc, maxException,
                               usage, timing1, called1)
             ELSE IF out.kind = "IndexError"
             THEN IF Further(Len(mf_instring), maxExcLoc)
                  THEN TryFrom(i + 1, es, outs, Len(mf_instring),
                               ParseExceptionAt(Len(mf_instring), i, "e.errmsg"),
                               usage, timing1, called1)
                  ELSE TryFrom(i + 1, es, outs, maxExcLoc, maxException,
                               usage, timing1, called1)
             ELSE [result |-> [kind |-> out.kind, loc |-> out.loc, tokens |-> <<>>,
                               from |-> i, msg |-> out.msg],
                   usage |-> usage, timing |-> timing1, called |-> called1]

FailKinds == {"ParseException", "IndexError"}

\* In an attempt with the outcomes outs, alternative i is reached: every
\* alternative before it fails; and it is the one that matches.
ReachedIn(outs, i) == \A j \in 1..(i - 1) : outs[j].kind \in FailKinds
MatchesIn(outs, i) == ReachedIn(outs, i) /\ outs[i].kind = "return"

\* What the calls of one attempt on n alternatives may do. A call that is not
\* made (an earlier call returned or raised past the loop) has no outcome of
\* its own: it is given the first outcome of the set.
AttemptOutcomes ==
    [n \in 0..MaxAlts |->
        {outs \in [1..n -> UNION {ParseOutcomes(e) : e \in 1..n}] :
            \A i \in 1..n :
                /\ outs[i] \in ParseOutcomes(i)
                /\ ~ReachedIn(outs, i) =>
                      outs[i] = [kind |-> "IndexError", loc |-> -1, tokens |-> <<>>,
                                 msg |-> "", took |-> 1]}]

\* Lines 423-453: one call of new_parseImpl on the node.
new_parseImpl ==
    /\ attempts < MaxAttempts
    /\ \E outs \in AttemptOutcomes[Len(exprs)] :
          /\ LET first == MatchFirstNode \notin profiled_MatchFirst_objs
                 usage0 == IF first THEN [i \in 1..Len(exprs) |-> 0] ELSE expr_usage_stats
                 timing0 == IF first THEN [i \in 1..Len(exprs) |-> <<>>]
                            ELSE expr_timing_stats
                 r == TryFrom(1, exprs, outs, -1, NoException, usage0, timing0, <<>>)
             IN  /\ profiled_MatchFirst_objs' = profiled_MatchFirst_objs \cup {MatchFirstNode}
                 /\ expr_usage_stats' = r.usage
                 /\ expr_timing_stats' = r.timing
                 /\ mf_calls' = r.called
                 /\ mf_result' = r.result
                 /\ won' = [i \in 1..Len(exprs) |->
                               won[i] + (IF MatchesIn(outs, i) THEN 1 ELSE 0)]
                 /\ tried' = [i \in 1..Len(exprs) |->
                               tried[i] + (IF ReachedIn(outs, i) THEN 1 ELSE 0)]
    /\ attempts' = attempts + 1
    /\ UNCHANGED <<exprs, expr_timing_aves, timing_pc, improvement>>
    /\ UNCHANGED <<importVars, cacheVars, reprVars, timedVars, kernelVars, wrapVars, threadVars>>

\* A MatchFirst of 0 to MaxAlts alternatives, add_profiling_to_MatchFirsts
\* run (line 454) and the node not parsed with yet.
MatchFirstStart ==
    /\ \E n \in 0..MaxAlts : exprs = [i \in 1..n |-> i]
    /\ profiled_MatchFirst_objs = {}
    /\ expr_timing_stats = <<>>
    /\ mf_calls = <<>>
    /\ mf_result = NoException
    /\ attempts = 0
    /\ won = [i \in 1..Len(exprs) |-> 0]
    /\ tried = [i \in 1..Len(exprs) |-> 0]

MatchFirstIdle ==
    /\ exprs = <<>>
    /\ profiled_MatchFirst_objs = {}
    /\ expr_timing_stats = <<>>
    /\ mf_calls = <<>>
    /\ mf_result = NoException
    /\ attempts = 0
    /\ won = <<>>
    /\ tried = <<>>

-----------------------------------------------------------------------------
(* PROFILING, lines 278-397 and 486-489: the timed methods.                 *)

\* Number of start_profiling calls and of method calls a behaviour makes.
MaxStarts == 2
MaxInvocations == 2

\* The parser-element classes of the engine module and, sorted as dir() sorts
\* them, their attributes: a value that is not callable, a method of the
\* excluded names of lines 369-392, and a method that is timed.
ProfiledClasses == {"ParserElement", "Token", "MatchFirst"}
AttrNames == <<"DEFAULT_WHITE_CHARS", "__init__", "parseImpl">>
ExcludedNames == {"__init__"}

\* Lines 329-341: the function add_timing_to_method generates around method;
\* its _timed attribute is True.
TimedWrapper(method) == <<"timed">> \o method

\* The check that finds no function timed.
IsTimedNever(attr) == FALSE

\* Line 368: getattr(attr, "_timed", False).
IsTimed(attr) == attr[1] = "timed"

\* Lines 360-394 from attribute j of object i of the namespace on.
RECURSIVE CollectFrom(_, _, _)
CollectFrom(i, j, dicts) ==
    IF i > Len(namespace) THEN dicts
    ELSE IF namespace[i] \notin ProfiledClasses \/ j > Len(AttrNames)
    THEN CollectFrom(i + 1, 1, dicts)
    ELSE LET obj == namespace[i]
             attr_name == AttrNames[j]
             attr == GetAttr(dicts, obj, attr_name)
         IN  IF /\ attr[1] \in {"def", "timed"}           \* callable(attr)
                /\ ~IsTimed(attr)
                /\ attr_name \notin ExcludedNames
             THEN CollectFrom(i, j + 1,
                              [dicts EXCEPT ![obj][attr_name] = TimedWrapper(attr)])
             ELSE CollectFrom(i, j + 1, dicts)

\* Lines 486-489: collect_timing_info(), which starts a new ledger (line 359),
\* then add_profiling_to_MatchFirsts(), which sets MatchFirst.parseImpl
\* (line 453).
start_profiling ==
    /\ profiling_runs < MaxStarts
    /\ timing_info' = <<>>
    /\ class_dict' = [CollectFrom(1, 1, class_dict) EXCEPT
                         !["MatchFirst"]["parseImpl"] =
                             DefinedIn("add_profiling_to_MatchFirsts", "new_parseImpl")]
    /\ profiling_runs' = profiling_runs + 1
    /\ UNCHANGED <<invocations, last_invocation>>
    /\ UNCHANGED <<use_fast_pyparsing_reprs, namespace, old_pyparsing_reprs, repr_pc,
                   repr_calls, sets_run, baseline, after_one_set, last_repr_op>>
    /\ UNCHANGED <<importVars, cacheVars, timingVars, matchVars, kernelVars, wrapVars, threadVars>>

\* The parser elements methods are called on, and str(self) of each.
Instances ==
    {[cls |-> "Token", str |-> "W:(a)"], [cls |-> "ParserElement", str |-> "W:(a)"],
     [cls |-> "MatchFirst", str |-> "{a | b}"]}

\* get_clock_time() - _start_time of a call.
ClockDeltas == {0, 1, 2}

\* The ledger with the time added only if the method returned.
AddElapsedOnReturn(ledger, key, elapsed, out) ==
    IF out # "return" THEN ledger
    ELSE IF key \in DOMAIN ledger THEN [ledger EXCEPT ![key] = @ + elapsed]
    ELSE [k \in DOMAIN ledger \cup {key} |-> IF k = key THEN elapsed ELSE ledger[k]]

\* Lines 337-340: _timing_info[0][str(self)] += elapsed, in the finally of the
\* call; the ledger is a defaultdict(float).
AddElapsed(ledger, key, elapsed, out) ==
    IF key \in DOMAIN ledger THEN [ledger EXCEPT ![key] = @ + elapsed]
    ELSE [k \in DOMAIN ledger \cup {key} |-> IF k = key THEN elapsed ELSE ledger[k]]

\* The ledger after a call of f took elapsed: every wrapper around the method
\* runs its finally.
RECURSIVE RunTimed(_, _, _, _, _)
RunTimed(f, ledger, key, elapsed, out) ==
    IF f = <<>> THEN ledger
    ELSE IF Head(f) = "timed"
    THEN AddElapsed(RunTimed(Tail(f), ledger, key, elapsed, out), key, elapsed, out)
    ELSE ledger

NoInvocation ==
    [timed |-> FALSE, key |-> "", elapsed |-> 0, did |-> "", saw |-> "", before |-> <<>>]

\* A caller calls self.parseImpl(...): the method, timed or not, returns or
\* raises, and the caller sees what the wrapper lets through.
InvokeMethod ==
    /\ invocations < MaxInvocations
    /\ \E self \in Instances, elapsed \in ClockDeltas, out \in {"return", "raise"} :
          LET f == GetAttr(class_dict, self.cls, "parseImpl")
          IN  /\ timing_info' = RunTimed(f, timing_info, self.str, elapsed, out)
              /\ last_invocation' = [timed |-> IsTimed(f), key |-> self.str,
                                     elapsed |-> elapsed, did |-> out, saw |-> out,
                                     before |-> timing_info]
    /\ invocations' = invocations + 1
    /\ UNCHANGED profiling_runs
    /\ UNCHANGED reprVars
    /\ UNCHANGED <<importVars, cacheVars, timingVars, matchVars, kernelVars, wrapVars, threadVars>>

\* The engine module before start_profiling: ParserElement defines the three
\* attributes, MatchFirst its own __init__ and parseImpl, Token its own
\* parseImpl or none.
ProfilingStart ==
    /\ namespace \in {o \in [1..4 -> ProfiledClasses \cup NonClasses] :
                        \A i, j \in 1..4 : i # j => o[i] # o[j]}
    /\ \E token_defines \in BOOLEAN :
          class_dict =
            [cls \in ProfiledClasses |->
                [a \in {AttrNames[j] : j \in 1..Len(AttrNames)} |->
                    IF cls = "ParserElement" /\ a = "DEFAULT_WHITE_CHARS"
                    THEN <<"value", cls, a>>
                    ELSE IF \/ cls = "ParserElement"
                            \/ cls = "MatchFirst" /\ a # "DEFAULT_WHITE_CHARS"
                            \/ cls = "Token" /\ a = "parseImpl" /\ token_defines
                    THEN DefinedIn(cls, a)
                    ELSE Absent]]
    /\ use_fast_pyparsing_reprs = FALSE
    /\ old_pyparsing_reprs = <<>>
    /\ repr_pc = "ready"
    /\ repr_calls = 0
    /\ sets_run = 0
    /\ baseline = <<>>
    /\ after_one_set = <<>>
    /\ last_repr_op = [op |-> "none", sets_before |-> 0]
    /\ timing_info = <<>>
    /\ profiling_runs = 0
    /\ invocations = 0
    /\ last_invocation = NoInvocation

ProfilingIdle ==
    /\ timing_info = <<>>
    /\ profiling_runs = 0
    /\ invocations = 0
    /\ last_invocation = NoInvocation

-----------------------------------------------------------------------------
(* coconut/util.py, lines 387-436: install_custom_kernel.                   *)

\* The file system calls of one install, in the order they are made. Each
\* is made only if the ones before it allow it.
KernelSteps == {"rmtree", "mkdir", "open", "write", "makedirs", "copy"}

\* Lines 423-428: executable and kernel_dict.
kernel_dict(executable) ==
    [argv |-> <<IF executable = "None" THEN "sys.executable" ELSE executable,
                "-m", "coconut.icoconut", "-f", "{connection_file}">>,
     display_name |-> "Coconut",
     language |-> "coconut"]

NoFile == [argv |-> <<>>, display_name |-> "", language |-> ""]

\* Lines 421-436: make_custom_kernel on the descriptor directory src, with
\* the steps of fails raising OSError. src: the state of the directory and
\* the kernel.json in it.
make_custom_kernel(src, executable, fails) ==
    IF src.dir /\ "rmtree" \in fails THEN [raised |-> TRUE, src |-> src]
    ELSE IF "mkdir" \in fails
    THEN [raised |-> TRUE, src |-> [dir |-> FALSE, json |-> NoFile]]
    ELSE IF "open" \in fails \/ "write" \in fails
    THEN [raised |-> TRUE, src |-> [dir |-> TRUE, json |-> NoFile]]
    ELSE [raised |-> FALSE, src |-> [dir |-> TRUE, json |-> kernel_dict(executable)]]

\* Lines 287-296: ensure_dir(kernel_dest), called without a logger; the
\* OSError of os.makedirs does not leave it.
ensure_dir(dest, fails) ==
    IF dest.kind # "absent" \/ "makedirs" \in fails THEN dest
    ELSE [kind |-> "dir", json |-> NoFile]

\* The hint for the other system.
ElevatedHintSwapped ==
    IF WINDOWS THEN " (try again with 'sudo')."
    ELSE " (try again from a shell that is run as administrator)."

\* Lines 407-411: the end of errmsg.
ElevatedHint ==
    IF WINDOWS THEN " (try again from a shell that is run as administrator)."
    ELSE " (try again with 'sudo')."

NotCalled == [result |-> "not called", warnings |-> <<>>, printed |-> <<>>]

\* Lines 387-418: install_custom_kernel(executable, logger).
install_custom_kernel ==
    /\ kernel_out = NotCalled
    /\ LET fails == kernel_call.fails
           made == make_custom_kernel(kernel_fs.src, kernel_call.executable, fails)
           ensured == ensure_dir(kernel_fs.dest, fails)
           copy_raised == "copy" \in fails
           \* shutil.copy to a directory puts kernel.json in it; to a path
           \* that does not exist it makes the file of that name
           copied == [kind |-> IF ensured.kind = "absent" THEN "file" ELSE "dir",
                      json |-> made.src.json]
           dest == IF made.raised THEN kernel_fs.dest
                   ELSE IF copy_raised THEN ensured ELSE copied
           existing == dest.kind = "dir" /\ dest.json # NoFile
           logger == kernel_call.logger
       IN  /\ kernel_fs' = [src |-> made.src, dest |-> dest]
           /\ IF made.raised \/ copy_raised
              THEN kernel_out' =
                     [result |-> "None",
                      warnings |->
                         <<[via |-> IF logger THEN "logger.warn" ELSE "warn",
                            errmsg |->
                               <<IF existing
                                 THEN "Failed to update Coconut Jupyter kernel installation; the 'coconut' kernel might not work properly as a result"
                                 ELSE "Coconut Jupyter kernel installation failed due to above error",
                                 ElevatedHint>>]>>,
                      printed |->
                         IF existing
                         THEN (IF logger THEN <<"logger.log_exc">> ELSE <<>>)
                         ELSE (IF logger THEN <<"logger.print_exc">>
                               ELSE <<"traceback.print_exc">>)]
              ELSE kernel_out' =
                     [result |-> "kernel_dest", warnings |-> <<>>, printed |-> <<>>]
    /\ UNCHANGED <<WINDOWS, kernel_call>>
    /\ UNCHANGED <<importVars, cacheVars, reprVars, timingVars, matchVars, timedVars, wrapVars, threadVars>>

\* A call on any system, with or without executable and logger, on a
\* descriptor directory that exists or not and a destination that does not
\* exist, is an empty directory or holds an older kernel.json.
KernelStart ==
    /\ WINDOWS \in BOOLEAN
    /\ kernel_call \in [executable : {"None", "/usr/bin/python3"},
                        logger : BOOLEAN,
                        fails : SUBSET KernelSteps,
                        found : [src : {[dir |-> FALSE, json |-> NoFile],
                                        [dir |-> TRUE, json |-> kernel_dict("old")]},
                                 dest : {[kind |-> "absent", json |-> NoFile],
                                         [kind |-> "dir", json |-> NoFile],
                                         [kind |-> "dir", json |-> kernel_dict("old")]}]]
    /\ kernel_fs = kernel_call.found
    /\ kernel_out = NotCalled

KernelIdle ==
    /\ WINDOWS = FALSE
    /\ kernel_call = [executable |-> "None", logger |-> FALSE, fails |-> {},
                      found |-> [src |-> [dir |-> FALSE, json |-> NoFile],
                                 dest |-> [kind |-> "absent", json |-> NoFile]]]
    /\ kernel_fs = kernel_call.found
    /\ kernel_out = NotCalled

-----------------------------------------------------------------------------
(* Lines 281-351: add_timing_to_method and the wrapper it generates.        *)

\* The most positional arguments a modelled call passes after self.
MaxPositional == 2

\* Lines 281-282: the class _timing_sentinel, as an argument value.
Sentinel == "_timing_sentinel"

\* Python's binding of the call f(*pos, **kw) to the parameters of sig: the
\* values the body of f starts with, or the TypeError of the call.
Bind(sig, pos, kw) ==
    LET n == Len(sig.args)
        npos == IF Len(pos) < n THEN Len(pos) ELSE n
        names == {sig.args[i] : i \in 1..n}
        positional == {sig.args[i] : i \in 1..npos}
        first_default == n - Len(sig.defaults) + 1
        defaulted == {sig.args[i] : i \in first_default..n}
        kwonly == {sig.kwonlyargs[i] : i \in 1..Len(sig.kwonlyargs)}
        kwdefaulted == {sig.kwonlydefaults[i][1] : i \in 1..Len(sig.kwonlydefaults)}
        kwdefault(k) ==
            LET i == CHOOSE j \in 1..Len(sig.kwonlydefaults) : sig.kwonlydefaults[j][1] = k
            IN  sig.kwonlydefaults[i][2]
        extra == DOMAIN kw \ (names \cup kwonly)
        missing == (names \ (positional \cup DOMAIN kw \cup defaulted))
                       \cup (kwonly \ (DOMAIN kw \cup kwdefaulted))
        ValueOf(i) ==
            IF i <= npos THEN pos[i]
            ELSE IF sig.args[i] \in DOMAIN kw THEN kw[sig.args[i]]
            ELSE sig.defaults[i - first_default + 1]
    IN  IF \/ Len(pos) > n /\ ~sig.varargs
           \/ positional \cap DOMAIN kw # {}
           \/ extra # {} /\ ~sig.varkw
           \/ missing # {}
        THEN [kind |-> "TypeError"]
        ELSE [kind |-> "bound",
              args |-> [i \in 1..n |-> ValueOf(i)],
              varargs |-> SubSeq(pos, n + 1, Len(pos)),
              kwonly |-> [k \in kwonly |->
                             IF k \in DOMAIN kw THEN kw[k] ELSE kwdefault(k)],
              varkw |-> [k \in extra |-> kw[k]]]

\* Lines 296-324: def_args of the generated function, with defaults_dict.
def_args(method) ==
    [args |-> method.args,
     defaults |-> [i \in 1..Len(method.defaults) |-> Sentinel],
     varargs |-> method.varargs,
     varkw |-> method.varkw,
     kwonlyargs |-> <<>>,
     kwonlydefaults |-> <<>>]

\* Lines 310-311, for every defaulted argument: fix_arg_defaults.
fix_arg_defaults(method, args) ==
    LET first_default == Len(method.args) - Len(method.defaults) + 1
    IN  [i \in 1..Len(args) |->
            IF i >= first_default /\ args[i] = Sentinel
            THEN method.defaults[i - first_default + 1]
            ELSE args[i]]

\* Lines 333-334: _all_args holds no sentinel, the condition of the check
\* before the call.
SentinelNowhere(args, varargs, varkw) ==
    /\ \A i \in 1..Len(args) : args[i] # Sentinel
    /\ \A i \in 1..Len(varargs) : varargs[i] # Sentinel
    /\ \A k \in DOMAIN varkw : varkw[k] # Sentinel

\* Lines 330-340, the arguments' way through the generated function: the
\* call is bound to def_args, the defaults are fixed, the check of line 334
\* runs and the method is called with call_args.
new_method_func(method, pos, kw) ==
    LET b == Bind(def_args(method), pos, kw)
        args == fix_arg_defaults(method, b.args)
    IN  IF b.kind # "bound" THEN [kind |-> "TypeError", invoked |-> [kind |-> "none"]]
        ELSE IF ~SentinelNowhere(args, b.varargs, b.varkw)
        THEN [kind |-> "CoconutInternalException", invoked |-> [kind |-> "none"]]
        ELSE [kind |-> "called",
              invoked |-> Bind(method, args \o b.varargs, b.varkw)]

\* Lines 285-351: add_timing_to_method(cls, method_name, method).
\* inspect.getargspec (line 291) is there below Python 3.11 and raises
\* ValueError for a function with keyword-only arguments;
\* inspect.getfullargspec (line 293) reports them and nothing after line 293
\* reads them. Line 294 raises when the first argument is not self.
add_timing_to_method ==
    /\ timed_func = [kind |-> "none"]
    /\ timed_func' =
           IF has_getargspec /\ timed_method.kwonlyargs # <<>>
           THEN [kind |-> "ValueError"]
           ELSE IF SubSeq(timed_method.args, 1, 1) # <<"self">>
           THEN [kind |-> "CoconutInternalException"]
           ELSE [kind |-> "timed"]
    /\ UNCHANGED <<has_getargspec, timed_method, timed_call, timed_out>>
    /\ UNCHANGED <<importVars, cacheVars, reprVars, timingVars, matchVars, timedVars, kernelVars, threadVars>>

\* A call of the generated method, with self first.
CallTimedMethod ==
    /\ timed_func.kind = "timed"
    /\ timed_out = [kind |-> "none"]
    /\ timed_out' = new_method_func(timed_method, <<"self">> \o timed_call.pos,
                                    timed_call.kw)
    /\ UNCHANGED <<has_getargspec, timed_method, timed_call, timed_func>>
    /\ UNCHANGED <<importVars, cacheVars, reprVars, timingVars, matchVars, timedVars, kernelVars, threadVars>>

\* The methods: up to two arguments after self (or a first argument that is
\* not self), the trailing ones defaulted, *args, **kwargs, and one
\* keyword-only argument k with or without its default (kwonlydefaults: the
\* <<name, default>> pairs). The calls: self, then up to MaxPositional
\* values, and keywords.
WrapperStart ==
    /\ has_getargspec \in BOOLEAN
    /\ timed_method \in
           {s \in [args : {<<"self">>, <<"self", "a">>, <<"self", "a", "b">>, <<"a">>},
                   defaults : {<<>>, <<"d1">>, <<"d1", "d2">>},
                   varargs : BOOLEAN, varkw : BOOLEAN,
                   kwonlyargs : {<<>>, <<"k">>},
                   kwonlydefaults : {<<>>, << <<"k", "dk">> >>}] :
               /\ Len(s.defaults) < Len(s.args)
               /\ s.kwonlyargs = <<>> => s.kwonlydefaults = <<>>}
    /\ timed_call \in
           [pos : UNION {[1..n -> {"x", Sentinel}] : n \in 0..MaxPositional},
            kw : UNION {[S -> {"x", Sentinel}] : S \in SUBSET {"a", "b", "k"}}]
    /\ timed_func = [kind |-> "none"]
    /\ timed_out = [kind |-> "none"]

WrapperIdle ==
    /\ has_getargspec = FALSE
    /\ timed_method = [args |-> <<"self">>, defaults |-> <<>>, varargs |-> FALSE,
                       varkw |-> FALSE, kwonlyargs |-> <<>>, kwonlydefaults |-> <<>>]
    /\ timed_call = [pos |-> <<>>, kw |-> <<>>]
    /\ timed_func = [kind |-> "none"]
    /\ timed_out = [kind |-> "none"]

-----------------------------------------------------------------------------
(* Lines 127-148 again: _parseCache called from several threads.            *)

\* The _parseCache calls a behaviour makes, over all threads.
MaxThreadCalls == 4

Threads == {"t1", "t2"}

\* The lock handed over whoever holds it.
MayAcquireAlways(lock, t) == TRUE

\* Line 130, entering the with block: packrat_cache_lock is the engine's
\* reentrant lock, lock[u] the times thread u holds it. Thread t gets it when
\* no other thread holds it.
MayAcquire(lock, t) == \A u \in Threads \ {t} : lock[u] = 0

\* Line 129: a thread calls _parseCache and builds lookup, the lock not yet
\* asked for. The call comes from the thread's own code, or from the
\* _parseNoCache run of e1 the thread is in, for e1's sub-element e2.
CallFromThread(t) ==
    /\ parseCache_installed
    /\ thread_calls < MaxThreadCalls
    /\ \E self \in Elems, instring \in Instrings, loc \in Locs, doActions \in BOOLEAN :
          /\ \/ frames[t] = <<>>
             \/ /\ Len(frames[t]) = 1
                /\ frames[t][1].pc = "parsing"
                /\ frames[t][1].key[1] = "e1"
                /\ self = "e2"
          /\ frames' = [frames EXCEPT ![t] =
                           <<[key |-> Lookup(self, instring, loc, doActions, TRUE),
                              pc |-> "waiting"]>> \o @]
    /\ thread_calls' = thread_calls + 1
    /\ UNCHANGED <<packrat_cache_lock, lookups, parses>>
    /\ UNCHANGED <<importVars, cacheVars, reprVars, timingVars, matchVars, timedVars, kernelVars, wrapVars>>

\* Line 130: the thread gets the lock.
AcquireLock(t) ==
    /\ frames[t] # <<>>
    /\ frames[t][1].pc = "waiting"
    /\ MayAcquire(packrat_cache_lock, t)
    /\ packrat_cache_lock' = [packrat_cache_lock EXCEPT ![t] = @ + 1]
    /\ frames' = [frames EXCEPT ![t][1].pc = "locked"]
    /\ UNCHANGED <<thread_calls, lookups, parses>>
    /\ UNCHANGED <<importVars, cacheVars, reprVars, timingVars, matchVars, timedVars, kernelVars, wrapVars>>

\* Lines 131-134: cache.get finds nothing, the miss is counted and
\* _parseNoCache starts.
CacheMiss(t) ==
    /\ frames[t] # <<>>
    /\ frames[t][1].pc = "locked"
    /\ CacheGet(packrat_cache, frames[t][1].key) = not_in_cache
    /\ packrat_cache_stats' = Bump(packrat_cache_stats, MISS)
    /\ lookups' = lookups + 1
    /\ parses' = [parses EXCEPT ![frames[t][1].key] = @ + 1]
    /\ frames' = [frames EXCEPT ![t][1].pc = "parsing"]
    /\ UNCHANGED <<packrat_cache, packrat_context, heap, ret, calls, stored, runs,
                   first_outcome, last>>
    /\ UNCHANGED <<packrat_cache_lock, thread_calls>>
    /\ UNCHANGED <<importVars, reprVars, timingVars, matchVars, timedVars, kernelVars, wrapVars>>

\* Lines 131-132 and 145-148: cache.get finds the entry, the hit is counted,
\* the call raises or returns and leaves the with block.
CacheHit(t) ==
    /\ frames[t] # <<>>
    /\ frames[t][1].pc = "locked"
    /\ CacheGet(packrat_cache, frames[t][1].key) # not_in_cache
    /\ packrat_cache_stats' = Bump(packrat_cache_stats, HIT)
    /\ lookups' = lookups + 1
    /\ packrat_cache_lock' = [packrat_cache_lock EXCEPT ![t] = @ - 1]
    /\ frames' = [frames EXCEPT ![t] = Tail(@)]
    /\ UNCHANGED <<packrat_cache, packrat_context, heap, ret, calls, stored, runs,
                   first_outcome, last>>
    /\ UNCHANGED <<thread_calls, parses>>
    /\ UNCHANGED <<importVars, reprVars, timingVars, matchVars, timedVars, kernelVars, wrapVars>>

\* Lines 135-143: _parseNoCache ends, no call of its own pending; the call
\* stores what lines 139 and 142 store, raises or returns and leaves the
\* with block. The objects of the results are not followed here.
ParseDone(t) ==
    /\ frames[t] # <<>>
    /\ frames[t][1].pc = "parsing"
    /\ \E out \in NoCacheOutcomes(frames[t][1].key[2], frames[t][1].key[3]) :
          packrat_cache' =
              IF out.kind = "parse_error"
              THEN StoreInCache(packrat_cache, CachedException(frames[t][1].key, out))
              ELSE IF out.kind = "other_error" THEN packrat_cache
              ELSE StoreInCache(packrat_cache,
                                CachedResult(frames[t][1].key, out.loc, 0, 0))
    /\ packrat_cache_lock' = [packrat_cache_lock EXCEPT ![t] = @ - 1]
    /\ frames' = [frames EXCEPT ![t] = Tail(@)]
    /\ UNCHANGED <<packrat_cache_stats, packrat_context, heap, ret, calls, stored, runs,
                   first_outcome, last>>
    /\ UNCHANGED <<thread_calls, lookups, parses>>
    /\ UNCHANGED <<importVars, reprVars, timingVars, matchVars, timedVars, kernelVars, wrapVars>>

ThreadsIdle ==
    /\ packrat_cache_lock = [t \in Threads |-> 0]
    /\ frames = [t \in Threads |-> <<>>]
    /\ thread_calls = 0
    /\ lookups = 0
    /\ parses = [k \in Keys |-> 0]

vars == <<importVars, cacheVars, reprVars, timingVars, matchVars, timedVars, kernelVars, wrapVars, threadVars>>

Init == ImportEnvInit /\ ImportStart /\ CacheIdle /\ ReprsIdle /\ TimingIdle /\ MatchFirstIdle /\ ProfilingIdle /\ KernelIdle /\ WrapperIdle /\ ThreadsIdle

Next ==
    \/ ImportEngine
    \/ VersionGate
    \/ Overrides
    \/ DetectIncremental
    \/ Negotiate

Spec == Init /\ [][Next]_vars

InitCache == ImportedPyparsing2 /\ CacheIdle /\ ReprsIdle /\ TimingIdle /\ MatchFirstIdle /\ ProfilingIdle /\ KernelIdle /\ WrapperIdle /\ ThreadsIdle

NextCache ==
    \/ CallParseCache
    \/ MutateReturned

SpecCache == InitCache /\ [][NextCache]_vars

InitReprs == ImportedPyparsing2 /\ CacheIdle /\ ReprsStart /\ TimingIdle /\ MatchFirstIdle /\ ProfilingIdle /\ KernelIdle /\ WrapperIdle /\ ThreadsIdle

NextReprs ==
    \/ ImportFastReprs
    \/ set_fast_pyparsing_reprs
    \/ unset_fast_pyparsing_reprs

SpecReprs == InitReprs /\ [][NextReprs]_vars

InitTiming == ImportedPyparsing2 /\ CacheIdle /\ ReprsIdle /\ TimingStart /\ MatchFirstIdle /\ ProfilingIdle /\ KernelIdle /\ WrapperIdle /\ ThreadsIdle

NextTiming == CallNaiveTimingImprovement

SpecTiming == InitTiming /\ [][NextTiming]_vars

InitMatchFirst ==
    /\ ImportedPyparsing2 /\ CacheIdle /\ ReprsIdle /\ TimingIdle /\ MatchFirstStart
    /\ ProfilingIdle /\ KernelIdle /\ WrapperIdle /\ ThreadsIdle

SpecMatchFirst == InitMatchFirst /\ [][new_parseImpl]_vars

InitProfiling ==
    /\ ImportedPyparsing2 /\ CacheIdle /\ TimingIdle /\ MatchFirstIdle /\ ProfilingStart
    /\ KernelIdle /\ WrapperIdle /\ ThreadsIdle

SpecProfiling == InitProfiling /\ [][start_profiling \/ InvokeMethod]_vars

InitKernel ==
    /\ ImportedPyparsing2 /\ CacheIdle /\ ReprsIdle /\ TimingIdle /\ MatchFirstIdle
    /\ ProfilingIdle /\ KernelStart /\ WrapperIdle /\ ThreadsIdle

SpecKernel == InitKernel /\ [][install_custom_kernel]_vars

InitWrapper ==
    /\ ImportedPyparsing2 /\ CacheIdle /\ ReprsIdle /\ TimingIdle /\ MatchFirstIdle
    /\ ProfilingIdle /\ KernelIdle /\ WrapperStart /\ ThreadsIdle

SpecWrapper == InitWrapper /\ [][add_timing_to_method \/ CallTimedMethod]_vars

\* The threads start where the calls of SpecCache start.
SpecThreads ==
    InitCache /\ [][\E t \in Threads : \/ CallFromThread(t)
                                       \/ AcquireLock(t)
                                       \/ CacheMiss(t)
                                       \/ CacheHit(t)
                                       \/ ParseDone(t)]_vars

-----------------------------------------------------------------------------
(* The packrat cache: claims C5 and C6 (SpecCache).                         *)

\* C5: with the override installed, a _parseCache call whose key was last
\* called with a returned result, no entry of the key evicted in between,
\* returns a result equal to that one (same location, same tokens as were
\* returned then), is a hit, and _parseNoCache has run exactly once for the
\* key over those calls.
C5_SecondCallIsEqualHit ==
    last.prior.kind = "return" =>
        /\ last.out = last.prior
        /\ last.hit
        /\ last.runs = 1

\* C5's case: a returning miss followed by a hit on the same key.
C5_Witness ==
    /\ parseCache_installed
    /\ last.prior.kind = "return"
    /\ last.out.kind = "return"
    /\ last.hit
    /\ packrat_cache_stats[MISS + 1] >= 1
    /\ packrat_cache_stats[HIT + 1] >= 1

\* C6 as stated: once the first call with a key raised a ParseBaseException,
\* every later call with that key raises the same type with the same
\* arguments without running _parseNoCache.
C6_EveryLaterCallReraises ==
    last.first.kind = "parse_error" =>
        /\ last.out = last.first
        /\ last.hit

\* C6 as amended: a call whose key was last called with a raised
\* ParseBaseException, no entry of the key evicted in between, raises the same
\* type with the same arguments and does not run _parseNoCache.
C6_ReraisesWhileCached ==
    last.prior.kind = "parse_error" =>
        /\ last.out.kind = "parse_error"
        /\ last.out.cls = last.prior.cls
        /\ last.out.args = last.prior.args
        /\ last.hit
        /\ last.runs = 1

\* C6's case: a miss that raised ParseException, then a hit on the same key.
C6_Witness ==
    /\ last.prior.kind = "parse_error"
    /\ last.out.kind = "parse_error"
    /\ last.out.args # NoArgs
    /\ last.hit

-----------------------------------------------------------------------------
(* The import: claims C1 to C4 (Spec).                                      *)

\* The version gate of lines 97-116 has been run.
GateRun == pc \notin {"import", "versioning"}

CurCmp(bound) == TupleCmp(cur_ver, bound, PY2)

\* min_ver <= cur_ver < max_ver, both comparisons defined.
InRange == cur_ver # None /\ CurCmp(min_ver) \in {"eq", "gt"} /\ CurCmp(max_ver) = "lt"

\* cur_ver >= max_ver, the comparison defined.
AboveRange ==
    cur_ver # None /\ CurCmp(min_ver) \in {"eq", "gt"} /\ CurCmp(max_ver) \in {"eq", "gt"}

\* C1: with no engine imported (cur_ver is None) or cur_ver < min_ver, the
\* import ends at the version gate with an ImportError whose message holds
\* "-m pip install --upgrade <PYPARSING_PACKAGE>", and nothing after the gate
\* runs: no override, no incremental detection, no mode enabled.
C1_TooOldIsFatal ==
    (GateRun /\ (cur_ver = None \/ CurCmp(min_ver) = "lt")) =>
        /\ pc = "failed"
        /\ error.type = "ImportError"
        /\ error.at = "versioning"
        /\ error.run = <<"-m pip install --upgrade", PYPARSING_PACKAGE>>
        /\ PYPARSING_PACKAGE \in {"cPyparsing", "pyparsing"}
        /\ enabled = NoModes
        /\ ~parseCache_installed
        /\ ~SUPPORTS_INCREMENTAL

\* C1's case: an engine older than min_ver was imported and the gate raised.
C1_Witness ==
    /\ pc = "failed"
    /\ cur_ver # None
    /\ CurCmp(min_ver) = "lt"
    /\ error.type = "ImportError"

\* C2: with min_ver <= cur_ver < max_ver the version gate raises nothing and
\* no warning is emitted, by the gate or later in the import.
C2_InRangeIsSilent ==
    (GateRun /\ InRange) =>
        /\ error.at # "versioning"
        /\ warnings = <<>>

\* C2's case: an engine in the supported range, the import run to its end.
C2_Witness ==
    /\ pc = "done"
    /\ InRange
    /\ error = NoError
    /\ warnings = <<>>

C4_OneModeByPriority ==
    LET L == MODERN_PYPARSING /\ use_left_recursion_if_available
        I == has_enableIncremental /\ host_ge_38 /\ use_incremental_if_available
        P == use_packrat_parser
    IN  pc = "done" =>
            /\ enabled.left_recursion = L
            /\ enabled.incremental = (~L /\ I)
            /\ enabled.packrat = (~L /\ ~I /\ P)
            /\ Cardinality({m \in DOMAIN enabled : enabled[m]}) <= 1

\* C4's case: all three modes available and requested, left-recursion chosen.
C4_Witness ==
    /\ pc = "done"
    /\ MODERN_PYPARSING /\ use_left_recursion_if_available
    /\ SUPPORTS_INCREMENTAL /\ use_incremental_if_available
    /\ use_packrat_parser
    /\ enabled = [left_recursion |-> TRUE, incremental |-> FALSE, packrat |-> FALSE]

-----------------------------------------------------------------------------
(* The fast reprs: claims C7 and C8 (SpecReprs).                            *)

\* C7: a set_fast_pyparsing_reprs called with an empty registry, followed by
\* unset_fast_pyparsing_reprs, leaves every parser-element class with the
\* __repr__ and __str__ it had before the set, and the registry empty.
C7_SetUnsetRestores ==
    (last_repr_op.op = "unset" /\ last_repr_op.sets_before = 1) =>
        /\ Reprs(class_dict) = baseline
        /\ old_pyparsing_reprs = <<>>

\* C8: a set_fast_pyparsing_reprs called again (after the call at import, or
\* after another call) leaves the registry and the installed reprs as the
\* first call left them, and one unset_fast_pyparsing_reprs after two or more
\* sets gives every class its original __repr__ and __str__ back.
C8_SetIdempotentAndReversible ==
    /\ (last_repr_op.op = "set" /\ last_repr_op.sets_before >= 1) =>
          /\ old_pyparsing_reprs = after_one_set.registry
          /\ Reprs(class_dict) = after_one_set.reprs
    /\ (last_repr_op.op = "unset" /\ last_repr_op.sets_before >= 2) =>
          Reprs(class_dict) = baseline

-----------------------------------------------------------------------------
(* The reordering estimate: claims C9 and C10 (SpecTiming).                 *)

Descending(usage) == \A i \in 1..(Len(usage) - 1) : usage[i] >= usage[i + 1]

\* C9: naive_timing_improvement returns the cost of the recorded order minus
\* the cost of the order sorted by descending usage, the cost being the sum
\* over i of usage[i] * sum(avg_time[0..i]); for usage [1, 100] with average
\* times [10, 1] it returns more than 0.
C9_ReturnsSavings ==
    timing_pc = "done" =>
        /\ improvement =
              time_for_ordering(expr_usage_stats, expr_timing_aves)
                - time_for_ordering(UsageOrdered(expr_usage_stats, expr_timing_aves).usage,
                                    UsageOrdered(expr_usage_stats, expr_timing_aves).aves)
        /\ (expr_usage_stats = <<1, 100>> /\ expr_timing_aves = <<10, 1>>) => improvement > 0

\* C10: for usage counts in non-increasing order, ties included, and
\* non-negative average times, naive_timing_improvement returns at least 0.
C10_DescendingIsNonNegative ==
    (/\ timing_pc = "done"
     /\ Len(expr_usage_stats) >= 1
     /\ Descending(expr_usage_stats)
     /\ \A i \in 1..Len(expr_timing_aves) : expr_timing_aves[i] >= 0)
        => improvement >= 0

\* C10's case: two alternatives of equal usage, the faster one first.
C10_Witness ==
    /\ timing_pc = "done"
    /\ Len(expr_usage_stats) >= 2
    /\ Descending(expr_usage_stats)
    /\ expr_usage_stats[1] = expr_usage_stats[2]
    /\ expr_timing_aves[1] < expr_timing_aves[2]
    /\ improvement > 0

-----------------------------------------------------------------------------
(* The profiled MatchFirst: claims C11 and C15 (SpecMatchFirst).            *)

CallFailed(c) == c.out.kind \in FailKinds

\* The location a failed call failed at: IndexError counts as the end of the
\* string.
FailLoc(c) == IF c.out.kind = "IndexError" THEN Len(mf_instring) ELSE c.out.loc

\* C11: an attempt calls the alternatives in order, from the first; when one
\* returns, its result is returned and no later alternative is called; when
\* all of them fail (ParseException or IndexError), a ParseException is raised
\* whose location is the greatest failure location and which comes from the
\* earliest alternative that failed there.
C11_FirstMatchOrFurthestError ==
    attempts > 0 =>
        /\ \A k \in 1..Len(mf_calls) : mf_calls[k].alt = k
        /\ \A k \in 1..Len(mf_calls) :
              mf_calls[k].out.kind = "return" =>
                  /\ k = Len(mf_calls)
                  /\ mf_result.kind = "return"
                  /\ mf_result.from = k
                  /\ mf_result.loc = mf_calls[k].out.loc
                  /\ mf_result.tokens = mf_calls[k].out.tokens
        /\ (exprs # <<>> /\ \A k \in 1..Len(mf_calls) : CallFailed(mf_calls[k])) =>
              /\ Len(mf_calls) = Len(exprs)
              /\ mf_result.kind = "ParseException"
              /\ mf_result.from \in 1..Len(mf_calls)
              /\ mf_result.loc = FailLoc(mf_calls[mf_result.from])
              /\ \A k \in 1..Len(mf_calls) :
                    /\ FailLoc(mf_calls[k]) <= mf_result.loc
                    /\ FailLoc(mf_calls[k]) = mf_result.loc => mf_result.from <= k

\* C11's case: every alternative failed, two of them at the greatest location,
\* and the error of the earlier one was raised.
C11_Witness ==
    /\ Len(exprs) >= 3
    /\ Len(mf_calls) = Len(exprs)
    /\ \A k \in 1..Len(mf_calls) : CallFailed(mf_calls[k])
    /\ FailLoc(mf_calls[1]) < FailLoc(mf_calls[2])
    /\ FailLoc(mf_calls[2]) = FailLoc(mf_calls[3])
    /\ mf_result.kind = "ParseException"
    /\ mf_result.from = 2

\* C15: once the node has been parsed with, expr_usage_stats[i] is the
\* number of attempts alternative i matched in, expr_timing_stats[i] holds one
\* sample per attempt alternative i was called in (all before it failed), so
\* samples(i+1) <= samples(i) - usage(i); both lists have one entry per
\* alternative of the node.
C15_StatsCountAttempts ==
    MatchFirstNode \in profiled_MatchFirst_objs =>
        /\ Len(expr_usage_stats) = Len(exprs)
        /\ Len(expr_timing_stats) = Len(exprs)
        /\ \A i \in 1..Len(exprs) :
              /\ expr_usage_stats[i] = won[i]
              /\ Len(expr_timing_stats[i]) = tried[i]
        /\ \A i \in 1..(Len(exprs) - 1) :
              Len(expr_timing_stats[i + 1]) <= Len(expr_timing_stats[i]) - expr_usage_stats[i]

\* C15's case: two attempts, the second alternative matched in one of them and
\* the first alternative in the other.
C15_Witness ==
    /\ attempts >= 2
    /\ Len(exprs) >= 2
    /\ expr_usage_stats[1] = 1
    /\ expr_usage_stats[2] = 1
    /\ Len(expr_timing_stats[1]) = 2
    /\ Len(expr_timing_stats[2]) = 1

-----------------------------------------------------------------------------
(* The timed methods: claims C12 and C16 (SpecProfiling).                   *)

\* The total the ledger holds for a key; nothing for a key it does not hold.
LedgerTotal(ledger, key) == IF key \in DOMAIN ledger THEN ledger[key] ELSE 0

\* The step is a call of a timed method, and the ledger entry of str(self) has
\* grown by exactly the elapsed time of the call.
AddedOnce ==
    (invocations' = invocations + 1 /\ last_invocation'.timed) =>
        LedgerTotal(timing_info', last_invocation'.key)
            = LedgerTotal(timing_info, last_invocation'.key) + last_invocation'.elapsed

\* The number of timing wrappers a call of the function goes through.
RECURSIVE TimedDepth(_)
TimedDepth(f) ==
    IF f = <<>> THEN 0 ELSE (IF Head(f) = "timed" THEN 1 ELSE 0) + TimedDepth(Tail(f))

\* C12: after any number of start_profiling calls, no attribute of a
\* parser-element class is a function under more than one timing wrapper, and
\* every call of a timed method adds its elapsed time to the ledger once.
C12_OneWrapperOneAddition ==
    [][/\ \A cls \in ProfiledClasses, j \in 1..Len(AttrNames) :
             TimedDepth(GetAttr(class_dict', cls, AttrNames[j])) <= 1
       /\ AddedOnce]_vars

\* C12's case: start_profiling ran twice, then a timed method was called and
\* its time was added to the ledger.
C12_Witness ==
    /\ profiling_runs = 2
    /\ last_invocation.timed
    /\ last_invocation.elapsed = 2
    /\ LedgerTotal(timing_info, last_invocation.key)
          = LedgerTotal(last_invocation.before, last_invocation.key) + 2
    /\ TimedDepth(GetAttr(class_dict, "Token", "parseImpl")) = 1

\* No entry of the ledger is removed or made smaller by the step.
LedgerGrows ==
    \A k \in DOMAIN timing_info :
        k \in DOMAIN timing_info' /\ timing_info'[k] >= timing_info[k]

\* The call of a timed method let the method's return or exception through.
PassedThrough ==
    (invocations' = invocations + 1 /\ last_invocation'.timed) =>
        last_invocation'.saw = last_invocation'.did

\* C16 as stated: every call of a timed method, returning or raising, adds
\* its elapsed time to the ledger entry of str(self) and lets the return or
\* exception through; no step after the first start_profiling removes or
\* lowers a ledger entry.
C16_LedgerOnlyGrows ==
    [][AddedOnce /\ PassedThrough /\ LedgerGrows]_vars

\* C16 as amended: the same, the ledger growing over every step that is not a
\* start_profiling; a repeated start_profiling starts an empty ledger.
C16_LedgerGrowsUntilRestart ==
    [][/\ AddedOnce
       /\ PassedThrough
       /\ (profiling_runs' = profiling_runs => LedgerGrows)
       /\ (profiling_runs' # profiling_runs => timing_info' = <<>>)]_vars

\* C16's case: two calls of timed methods on elements of the same string
\* form, the second one raising, both added to the one entry.
C16_Witness ==
    /\ invocations = 2
    /\ last_invocation.timed
    /\ last_invocation.did = "raise"
    /\ last_invocation.elapsed = 1
    /\ LedgerTotal(last_invocation.before, last_invocation.key) = 2
    /\ LedgerTotal(timing_info, last_invocation.key) = 3

-----------------------------------------------------------------------------
(* The kernel installer: claim C13 (SpecKernel).                            *)

KernelCalled == kernel_out # NotCalled

\* Writing the descriptor raises OSError: one of the calls make_custom_kernel
\* makes does.
DescriptorRaises ==
    \/ "mkdir" \in kernel_call.fails
    \/ "open" \in kernel_call.fails
    \/ "write" \in kernel_call.fails
    \/ "rmtree" \in kernel_call.fails /\ kernel_call.found.src.dir

\* Creating the destination directory raises OSError: the directory was not
\* there, os.makedirs is reached and raises.
MakedirsRaises ==
    /\ ~DescriptorRaises
    /\ "makedirs" \in kernel_call.fails
    /\ kernel_call.found.dest.kind = "absent"

CopyRaises == ~DescriptorRaises /\ "copy" \in kernel_call.fails

\* The call warned once, with the hint of the system, through the logger if
\* one was given and through warn() if not, and returned None.
WarnedOnceReturnedNone ==
    /\ kernel_out.result = "None"
    /\ Len(kernel_out.warnings) = 1
    /\ kernel_out.warnings[1].via = (IF kernel_call.logger THEN "logger.warn" ELSE "warn")
    /\ kernel_out.warnings[1].errmsg[2] =
          (IF WINDOWS THEN " (try again from a shell that is run as administrator)."
           ELSE " (try again with 'sudo').")

\* The call returned the destination path without a warning.
ReturnedDest == kernel_out.result = "kernel_dest" /\ kernel_out.warnings = <<>>

\* The kernel.json the destination holds is the descriptor of the claim.
DestHoldsDescriptor ==
    /\ kernel_fs.dest.json.argv[1] =
          (IF kernel_call.executable = "None" THEN "sys.executable"
           ELSE kernel_call.executable)
    /\ Tail(kernel_fs.dest.json.argv) = <<"-m", "coconut.icoconut", "-f", "{connection_file}">>
    /\ kernel_fs.dest.json.display_name = "Coconut"
    /\ kernel_fs.dest.json.language = "coconut"

\* C13 as stated: the call never ends in an OSError; if writing the
\* descriptor, creating the destination directory and copying all succeed it
\* returns the destination path and the kernel.json there is the descriptor;
\* if any of the three raises OSError it warns once with the hint and returns
\* None.
C13_AnyOSErrorWarnsOnce ==
    KernelCalled =>
        /\ kernel_out.result \in {"None", "kernel_dest"}
        /\ (~DescriptorRaises /\ ~MakedirsRaises /\ ~CopyRaises) =>
              (ReturnedDest /\ kernel_fs.dest.kind = "dir" /\ DestHoldsDescriptor)
        /\ (DescriptorRaises \/ MakedirsRaises \/ CopyRaises) => WarnedOnceReturnedNone

\* C13 as amended: the same for an OSError of writing the descriptor or of
\* copying; an OSError of creating the destination directory stays inside
\* ensure_dir, the copy is still made and decides: if it succeeds the call
\* returns the destination path without a warning.
C13_DescriptorOrCopyErrorWarnsOnce ==
    KernelCalled =>
        /\ kernel_out.result \in {"None", "kernel_dest"}
        /\ (~DescriptorRaises /\ ~CopyRaises) => (ReturnedDest /\ DestHoldsDescriptor)
        /\ (~DescriptorRaises /\ ~MakedirsRaises /\ ~CopyRaises) => kernel_fs.dest.kind = "dir"
        /\ (DescriptorRaises \/ CopyRaises) => WarnedOnceReturnedNone

\* C13's case: on Windows, with a logger, the copy raised OSError after the
\* descriptor was written and the directory made.
C13_Witness ==
    /\ KernelCalled
    /\ WINDOWS
    /\ kernel_call.logger
    /\ CopyRaises
    /\ ~MakedirsRaises
    /\ kernel_fs.src.json = kernel_dict(kernel_call.executable)
    /\ kernel_out.result = "None"
    /\ Len(kernel_out.warnings) = 1


-----------------------------------------------------------------------------
(* The generated timing wrapper: claim C14 (SpecWrapper).                   *)

\* The call made on the method as it was before add_timing_to_method.
DirectCall == Bind(timed_method, <<"self">> \o timed_call.pos, timed_call.kw)

SentinelPassed == ~SentinelNowhere(timed_call.pos, <<>>, timed_call.kw)

\* C14: a call of the generated wrapper preserves the call behaviour of the
\* method: a call the method accepts, the sentinel not among its arguments,
\* reaches the method with the values the direct call binds (the original
\* defaults for the defaulted arguments left out, the positional, variable
\* and keyword arguments as passed), and the method is never entered with
\* the sentinel in an argument.
C14_WrapperPreservesCall ==
    timed_out # [kind |-> "none"] =>
        /\ (DirectCall.kind = "bound" /\ ~SentinelPassed) =>
               timed_out = [kind |-> "called", invoked |-> DirectCall]
        /\ (timed_out.kind = "called" /\ timed_out.invoked.kind = "bound") =>
               /\ SentinelNowhere(timed_out.invoked.args, timed_out.invoked.varargs,
                                  timed_out.invoked.varkw)
               /\ \A k \in DOMAIN timed_out.invoked.kwonly :
                      timed_out.invoked.kwonly[k] # Sentinel


-----------------------------------------------------------------------------
(* _parseCache under threads: claim C17 (SpecThreads).                      *)

\* Thread t is inside the with block of line 130 in one of its calls.
InWithBlock(t) ==
    \E i \in 1..Len(frames[t]) : frames[t][i].pc \in {"locked", "parsing"}

Serialized == \A t, u \in Threads : (InWithBlock(t) /\ InWithBlock(u)) => t = u

StatsCountLookups == packrat_cache_stats[HIT + 1] + packrat_cache_stats[MISS + 1] = lookups

\* C17 as stated: the threads are never inside the with block of
\* _parseCache together, under every interleaving _parseNoCache runs at
\* most once for a key, and hits + misses is the number of lookups.
C17_ParsedAtMostOncePerKey ==
    /\ Serialized
    /\ StatsCountLookups
    /\ \A k \in Keys : parses[k] <= 1

\* C17, amended: the threads are never inside the with block together,
\* hits + misses is the number of lookups, and while a thread is in the
\* _parseNoCache run of a key (started by a lookup that found no entry) the
\* cache holds no entry of that key: no other thread parses or stores the
\* key meanwhile. A key is parsed again only when the cache has no entry of
\* it, the entry evicted or the earlier run ended without one.
C17_SerializedParseOfUncachedKey ==
    /\ Serialized
    /\ StatsCountLookups
    /\ \A t \in Threads : \A i \in 1..Len(frames[t]) :
           frames[t][i].pc = "parsing" =>
               frames[t][i].key \notin CachedKeys(packrat_cache)

\* One thread is in the parse of a key, having missed, and the other waits
\* for the lock with the same key.
C17_Witness ==
    \E t, u \in Threads :
        /\ t # u
        /\ frames[t] # <<>> /\ frames[u] # <<>>
        /\ frames[t][1].pc = "parsing"
        /\ frames[u][1].pc = "waiting"
        /\ frames[u][1].key = frames[t][1].key
        /\ packrat_cache_stats[MISS + 1] = 1


-----------------------------------------------------------------------------
(* The cache and the results its callers hold: claim C18 (SpecCache).       *)

\* The entries of the cache that hold a result.
ResultEntries ==
    {packrat_cache[i] : i \in {j \in 1..Len(packrat_cache) :
                                  packrat_cache[j].kind = "result"}}

\* C18: the object a call returned, on a miss or on a hit, is never the
\* object the cache holds, and whatever the caller does to it every cached
\* result keeps the location and the tokens the call that stored it
\* returned, which is what the next hit on its key copies and returns.
C18_CacheIsolatedFromCallers ==
    \A entry \in ResultEntries :
        /\ ret.kind = "return" => ret.obj # entry.obj
        /\ stored[entry.key].kind = "return"
        /\ entry.loc = stored[entry.key].loc
        /\ heap[entry.obj] = stored[entry.key].tokens

\* A hit returned a result and the caller has changed the object it got: it
\* no longer holds the tokens of the entry it was copied from.
C18_Witness ==
    /\ last.hit
    /\ ret.kind = "return"
    /\ \E entry \in ResultEntries :
           /\ entry.key = last.key
           /\ heap[ret.obj] # heap[entry.obj]
           /\ heap[entry.obj] = last.out.tokens

====
